---- MODULE Spec2Model ----
(***************************************************************************)
(* A model of the sub-niche discovery backend of ideafinder:               *)
(*   - AnalyzerRegistry.combineResults (cross-analyzer merge and dedup),   *)
(*   - DiscoveryServiceImpl (job lifecycle, expansion task, cancellation)  *)
(*     over InMemoryDiscoveryRepo and RedditAnalyzer.analyze,              *)
(*   - the SSE stream handler of GET /api/discover/:jobId/stream.          *)
(* Strings that the code takes apart (labels) are sequences of one-char    *)
(* strings; strings that the code only concatenates and compares (ids,     *)
(* edge keys) are strings.  Confidences are in percent.                    *)
(***************************************************************************)
EXTENDS Integers, Sequences, FiniteSets, TLC

VARIABLES
    mergePc,        \* combineResults: "idle", "input" (called) or "combined" (returned)
    mergeIn,        \* combineResults: the list of analyzer results handed in
    mergeOut,       \* combineResults: the combined result, once computed
    jobs,           \* InMemoryDiscoveryRepo.jobs: job id -> job record
    jobGraphs,      \* InMemoryDiscoveryRepo.jobGraphs: job id -> graph
    cancelledJobs,  \* DiscoveryServiceImpl.cancelledJobs
    activeJobs,     \* DiscoveryServiceImpl.activeJobs (its keys)
    tasks,          \* the expansion tasks (runRealDiscovery calls), in start order
    running,        \* the task whose code holds the event loop; 0 when it is idle
    lastCancel,     \* what the last cancelJob call found and answered
    conns,          \* the stream connections, in the order they were opened
    lastReply,      \* POST /api/discover: the body and the answer of the last request
    regIn,          \* analyzeWithMultiplePlatforms: the platforms asked for, and what
                    \* the analyzer of each does when it is invoked
    regOut,         \* analyzeWithMultiplePlatforms: what the call returned or threw
    state,          \* discoveryMachine (client): the state it is in
    context         \* discoveryMachine (client): its context

mergeVars == <<mergePc, mergeIn, mergeOut, regIn, regOut>>
clientVars == <<state, context>>
otherVars == <<mergePc, mergeIn, mergeOut, regIn, regOut, conns, lastReply, state, context>>
serviceVars == <<jobs, jobGraphs, cancelledJobs, activeJobs, tasks, running, lastCancel>>
vars == <<mergePc, mergeIn, mergeOut, jobs, jobGraphs, cancelledJobs, activeJobs,
          tasks, running, lastCancel, conns, lastReply, regIn, regOut, state,
          context>>

(***************************************************************************)
(* Bounds of the model                                                     *)
(***************************************************************************)
MaxMergeNodes == 2      \* input nodes per list of results (node family)
MaxMergeEdges == 1      \* input edges per list of results (edge family)
MaxLevelsBound == 2     \* largest config.maxLevels of a start request
MaxNodesBound == 2      \* largest config.maxNodesPerLevel of a start request
MaxTopics == 1          \* most topics one parent expansion returns
MaxSimulations == 1     \* calls of simulateDiscovery
MaxTicks == 1           \* poll ticks, of all connections together, that go on polling
MaxConns == 2           \* stream connections opened

(***************************************************************************)
(* Sequence helpers                                                        *)
(***************************************************************************)
RECURSIVE Flatten(_)
Flatten(ss) == IF ss = <<>> THEN <<>> ELSE Head(ss) \o Flatten(Tail(ss))

RECURSIVE SumSeq(_)
SumSeq(s) == IF s = <<>> THEN 0 ELSE Head(s) + SumSeq(Tail(s))

SeqMap(Op(_), s) == [i \in 1..Len(s) |-> Op(s[i])]

Range(s) == {s[i] : i \in 1..Len(s)}

\* Array.prototype.join on strings
RECURSIVE Join(_, _)
Join(ss, sep) ==
    IF ss = <<>> THEN ""
    ELSE IF Len(ss) = 1 THEN ss[1]
    ELSE ss[1] \o sep \o Join(Tail(ss), sep)

\* String.prototype.includes
Contains(s, sub) ==
    \E i \in 1..(Len(s) - Len(sub) + 1) : SubSeq(s, i, i + Len(sub) - 1) = sub

\* all sequences over S of length at most n
SeqsUpTo(S, n) == UNION {[1..k -> S] : k \in 0..n}

(***************************************************************************)
(* String operations of the merge (String.prototype.toLowerCase / trim,    *)
(* number-to-string in a template literal)                                 *)
(***************************************************************************)
LowerChar(c) ==
    CASE c = "A" -> "a"
      [] c = "B" -> "b"
      [] c = "I" -> "i"
      [] c = "R" -> "r"
      [] OTHER   -> c

ToLowerCase(s) == [i \in 1..Len(s) |-> LowerChar(s[i])]

IsSpace(c) == c = " "

RECURSIVE TrimStart(_)
TrimStart(s) == IF s # <<>> /\ IsSpace(Head(s)) THEN TrimStart(Tail(s)) ELSE s

RECURSIVE TrimEnd(_)
TrimEnd(s) ==
    IF s # <<>> /\ IsSpace(s[Len(s)]) THEN TrimEnd(SubSeq(s, 1, Len(s) - 1)) ELSE s

Trim(s) == TrimEnd(TrimStart(s))

RECURSIVE Digits(_)
Digits(n) ==
    IF n < 10 THEN <<ToString(n)>> ELSE Digits(n \div 10) \o <<ToString(n % 10)>>

(***************************************************************************)
(* AnalyzerRegistry.combineResults                                         *)
(***************************************************************************)
NoData == [has |-> FALSE, kv |-> <<>>]
SomeData(kv) == [has |-> TRUE, kv |-> kv]

\* `${node.label.toLowerCase().trim()}-${node.level}`
NodeKeyNoLower(node) == Trim(node.label) \o <<"-">> \o Digits(node.level)
NodeKey(node) == Trim(ToLowerCase(node.label)) \o <<"-">> \o Digits(node.level)

\* { ...existing.data, ...node.data }
SpreadData(a, b) ==
    [k \in (DOMAIN a) \cup (DOMAIN b) |-> IF k \in DOMAIN b THEN b[k] ELSE a[k]]

\* the collision branch: keep higher confidence, combine popularity, merge data
MergeNodeKeepPopularity(existing, node) ==
    LET c == IF node.confidence > existing.confidence
             THEN [existing EXCEPT !.confidence = node.confidence,
                                   !.source = node.source,
                                   !.popularity = node.popularity]
             ELSE existing
    IN  IF node.data.has /\ existing.data.has
        THEN [c EXCEPT !.data = SomeData(SpreadData(existing.data.kv, node.data.kv))]
        ELSE c
MergeNodeLaterWinsTie(existing, node) ==
    LET c == IF node.confidence >= existing.confidence
             THEN [existing EXCEPT !.confidence = node.confidence,
                                   !.source = node.source]
             ELSE existing
        p == [c EXCEPT !.popularity = c.popularity + node.popularity]
    IN  IF node.data.has /\ existing.data.has
        THEN [p EXCEPT !.data = SomeData(SpreadData(existing.data.kv, node.data.kv))]
        ELSE p
MergeNode(existing, node) ==
    LET c == IF node.confidence > existing.confidence
             THEN [existing EXCEPT !.confidence = node.confidence,
                                   !.source = node.source]
             ELSE existing
        p == [c EXCEPT !.popularity = c.popularity + node.popularity]
    IN  IF node.data.has /\ existing.data.has
        THEN [p EXCEPT !.data = SomeData(SpreadData(existing.data.kv, node.data.kv))]
        ELSE p

\* position of key in a Map kept as a sequence of [key, val] in insertion order
MapIndex(map, key) ==
    IF \E i \in 1..Len(map) : map[i].key = key
    THEN CHOOSE i \in 1..Len(map) : map[i].key = key
    ELSE 0

MapValues(map) == [i \in 1..Len(map) |-> map[i].val]

\* allNodes.forEach(node => ...) over nodeMap
RECURSIVE DedupNodes(_, _)
DedupNodes(nodeMap, rest) ==
    IF rest = <<>> THEN nodeMap
    ELSE LET node == Head(rest)
             key  == NodeKey(node)
             i    == MapIndex(nodeMap, key)
         IN  DedupNodes(IF i = 0
                        THEN Append(nodeMap, [key |-> key, val |-> node])
                        ELSE [nodeMap EXCEPT ![i].val = MergeNode(@, node)],
                        Tail(rest))

\* `${edge.source}-${edge.target}-${edge.relationship}`
EdgeKey(edge) == edge.source \o "-" \o edge.target \o "-" \o edge.relationship

\* allEdges.forEach(edge => ...) over edgeMap
RECURSIVE DedupEdges(_, _)
DedupEdges(edgeMap, rest) ==
    IF rest = <<>> THEN edgeMap
    ELSE LET edge == Head(rest)
             key  == EdgeKey(edge)
             i    == MapIndex(edgeMap, key)
         IN  DedupEdges(IF i = 0
                        THEN Append(edgeMap, [key |-> key, val |-> edge])
                        ELSE IF edge.confidence > edgeMap[i].val.confidence
                             THEN [edgeMap EXCEPT ![i].val = edge]
                             ELSE edgeMap,
                        Tail(rest))

\* `node-${node.level}-${index}`
NewNodeId(node, index) == "node-" \o ToString(node.level) \o "-" \o ToString(index)

\* nodeIdMap after deduplicatedNodes.forEach: old id -> new id, a later set of
\* the same old id replacing an earlier one
NodeIdMap(dedupNodes) ==
    [id \in {dedupNodes[i].id : i \in 1..Len(dedupNodes)} |->
        LET last == CHOOSE i \in 1..Len(dedupNodes) :
                        /\ dedupNodes[i].id = id
                        /\ \A j \in 1..Len(dedupNodes) : dedupNodes[j].id = id => j <= i
        IN  NewNodeId(dedupNodes[last], last - 1)]

\* nodeIdMap.get(id) || id
RemapId(nodeIdMap, id) == IF id \in DOMAIN nodeIdMap THEN nodeIdMap[id] ELSE id

CombineResults(results) ==
    LET allNodes   == Flatten(SeqMap(LAMBDA r : r.nodes, results))
        allEdges   == Flatten(SeqMap(LAMBDA r : r.edges, results))
        dedupNodes == MapValues(DedupNodes(<<>>, allNodes))
        dedupEdges == MapValues(DedupEdges(<<>>, allEdges))
        nodeIdMap  == NodeIdMap(dedupNodes)
    IN  [nodes |-> [i \in 1..Len(dedupNodes) |->
                       [dedupNodes[i] EXCEPT !.id = NewNodeId(dedupNodes[i], i - 1)]],
         edges |-> [i \in 1..Len(dedupEdges) |->
                       [dedupEdges[i] EXCEPT
                           !.id = "edge-" \o ToString(i - 1),
                           !.source = RemapId(nodeIdMap, dedupEdges[i].source),
                           !.target = RemapId(nodeIdMap, dedupEdges[i].target)]],
         analyzerMetadata |-> SeqMap(LAMBDA r : r.metadata, results),
         combinedMetadata |->
             [totalApiCalls |-> SumSeq(SeqMap(LAMBDA r : r.metadata.apiCalls, results)),
              platformsUsed |-> SeqMap(LAMBDA r : r.metadata.platform, results)]]

(***************************************************************************)
(* Inputs of combineResults: what analyzers of two platforms may return.   *)
(* An analyzer stamps its own platform on its nodes and edges and numbers  *)
(* its nodes itself ('root', 'node-<level>-<index>'), so two analyzers use *)
(* the same ids for different nodes.                                       *)
(***************************************************************************)
Platforms == <<"reddit", "twitter">>

MergeLabels == { <<"A", "i">>, <<"a", "i", " ">>, <<"b">> }
MergeLevels == {0, 1}
MergeConfidences == {60, 90}
MergePopularities == {50, 100}
EdgeConfidences == {70, 80}

NodeShapes == [label : MergeLabels, level : MergeLevels,
               confidence : MergeConfidences, popularity : MergePopularities]
PlainShapes == [label : MergeLabels, level : MergeLevels,
                confidence : {80}, popularity : {100}]

AnalyzerNodeId(level, index) ==
    IF level = 0 THEN "root" ELSE "node-" \o ToString(level) \o "-" \o ToString(index)

NodeType(level) == IF level = 0 THEN "niche" ELSE IF level = 1 THEN "sub-niche" ELSE "topic"

MkNode(platform, index, shape) ==
    [id |-> AnalyzerNodeId(shape.level, index), label |-> shape.label,
     level |-> shape.level, type |-> NodeType(shape.level), source |-> platform,
     confidence |-> shape.confidence, popularity |-> shape.popularity,
     data |-> NoData]

MkEdge(platform, e) ==
    [id |-> "edge-" \o e.source \o "-" \o e.target, source |-> e.source,
     target |-> e.target, relationship |-> "contains",
     confidence |-> e.confidence, source_platform |-> platform]

MkResult(platform, shapes, edgeShapes) ==
    [nodes |-> [i \in 1..Len(shapes) |-> MkNode(platform, i - 1, shapes[i])],
     edges |-> [i \in 1..Len(edgeShapes) |-> MkEdge(platform, edgeShapes[i])],
     metadata |-> [platform |-> platform, apiCalls |-> 1, errors |-> <<>>]]

NodeIds(nodes) == {nodes[i].id : i \in 1..Len(nodes)}

EdgeShapes(shapes) ==
    LET ids == {AnalyzerNodeId(shapes[i].level, i - 1) : i \in 1..Len(shapes)}
    IN  [source : ids, target : ids, confidence : EdgeConfidences]

\* the results of one or two analyzers, holding the shapes `all` cut at k
SplitResults(all, k, e1, e2) ==
    IF k = Len(all)
    THEN {<<MkResult(Platforms[1], all, e1)>>,
          <<MkResult(Platforms[1], all, e1), MkResult(Platforms[2], <<>>, <<>>)>>}
    ELSE {<<MkResult(Platforms[1], SubSeq(all, 1, k), e1),
            MkResult(Platforms[2], SubSeq(all, k + 1, Len(all)), e2)>>}

(***************************************************************************)
(* AnalyzerRegistry.analyzeWithMultiplePlatforms. A request names a        *)
(* platform; its analyzer is registered or not, and when invoked it        *)
(* returns a result or throws an error with a reason.                      *)
(***************************************************************************)
MaxSnapshots == 1        \* snapshots the page takes
MaxClientNodes == 1      \* nodes the stream reports to the client
MaxClientEdges == 1      \* edges the stream reports to the client
MaxPlatforms == 3
MaxSubNiches == 2         \* sub-niches one analyzer returns for the merge

Reasons == {"E1", "E2"}

\* the results an analyzer may return: one sub-niche of its own
RegistryResults(platform) ==
    {MkResult(platform, <<shape>>, <<>>) :
        shape \in [label : MergeLabels, level : {1}, confidence : {80},
                   popularity : {100}]}

NotRegistered(platform) ==
    [platform |-> platform, registered |-> FALSE, ok |-> FALSE,
     result |-> MkResult(platform, <<>>, <<>>), reason |-> ""]

Requests ==
    UNION {{NotRegistered(p)}
           \cup {[platform |-> p, registered |-> TRUE, ok |-> TRUE,
                   result |-> r, reason |-> ""] : r \in RegistryResults(p)}
           \cup {[platform |-> p, registered |-> TRUE, ok |-> FALSE,
                   result |-> MkResult(p, <<>>, <<>>), reason |-> e] : e \in Reasons}
           : p \in Range(Platforms)}

NotCalled ==
    [called |-> FALSE, thrown |-> FALSE, message |-> "", result |-> CombineResults(<<>>)]

Threw(message) ==
    [called |-> TRUE, thrown |-> TRUE, message |-> message,
     result |-> CombineResults(<<>>)]

\* the orders in which n analyzers running in parallel may fail
Orders(n) == {f \in [1..n -> 1..n] : \A i, k \in 1..n : i # k => f[i] # f[k]}

\* the analyzers found for the platforms asked for
Invoked(requests) == SelectSeq(requests, LAMBDA r : r.registered)

\* a registry that gives up when any of its analyzers fails
AnalyzeFailFast(requests, order) ==
    LET failed == SelectSeq(Invoked(requests), LAMBDA r : ~r.ok)
        done   == SelectSeq(Invoked(requests), LAMBDA r : r.ok)
        errors == [i \in 1..Len(failed) |->
                      "Error in " \o failed[order[i]].platform \o " analyzer: "
                      \o failed[order[i]].reason]
    IN  IF Invoked(requests) = <<>>
        THEN Threw("No analyzers found for platforms: "
                   \o Join(SeqMap(LAMBDA r : r.platform, requests), ", "))
        ELSE IF failed # <<>>
        THEN Threw("All analyzers failed. Errors: " \o Join(errors, "; "))
        ELSE [called |-> TRUE, thrown |-> FALSE, message |-> "",
              result |-> CombineResults(SeqMap(LAMBDA r : r.result, done))]

\* analyzeWithMultiplePlatforms(niche, platforms, config, progressCallback);
\* order is the order in which the failing analyzers fail
AnalyzeWithMultiplePlatforms(requests, order) ==
    LET failed == SelectSeq(Invoked(requests), LAMBDA r : ~r.ok)
        done   == SelectSeq(Invoked(requests), LAMBDA r : r.ok)
        errors == [i \in 1..Len(failed) |->
                      "Error in " \o failed[order[i]].platform \o " analyzer: "
                      \o failed[order[i]].reason]
    IN  IF Invoked(requests) = <<>>
        THEN Threw("No analyzers found for platforms: "
                   \o Join(SeqMap(LAMBDA r : r.platform, requests), ", "))
        ELSE IF done = <<>>
        THEN Threw("All analyzers failed. Errors: " \o Join(errors, "; "))
        ELSE [called |-> TRUE, thrown |-> FALSE, message |-> "",
              result |-> CombineResults(SeqMap(LAMBDA r : r.result, done))]

(***************************************************************************)
(* InMemoryDiscoveryRepo                                                   *)
(***************************************************************************)
Undefined == "<undefined>"          \* an optional string that is absent
NoSubAnalysis == [has |-> FALSE]    \* job.subAnalysis / progress.subAnalysis absent

JobIds == {"j1"}        \* the ids crypto.randomUUID() hands out
UnknownId == "j0"       \* an id under which no job is ever created

TerminalStatus == {"complete", "error", "cancelled"}

NewJob(config) ==
    [config |-> config, status |-> "starting", currentLevel |-> 0,
     totalNodes |-> 0, totalEdges |-> 0, error |-> Undefined,
     subAnalysis |-> NoSubAnalysis]

NewGraph == [nodes |-> <<>>, edges |-> <<>>]

\* an updateJobStatus that never writes the error field
UpdateJobStatusOnly(js, j, status, error) ==
    IF j \in DOMAIN js THEN [js EXCEPT ![j].status = status] ELSE js

\* updateJobStatus(jobId, status, error?)
UpdateJobStatus(js, j, status, error) ==
    IF j \in DOMAIN js
    THEN [js EXCEPT ![j].status = status,
                    ![j].error = IF error # Undefined /\ error # "" THEN error ELSE @]
    ELSE js

\* a repository that keeps one current level for all its jobs
UpdateEveryJobCurrentLevel(js, j, level) ==
    [i \in DOMAIN js |-> [js[i] EXCEPT !.currentLevel = level]]

\* updateJobCurrentLevel(jobId, level)
UpdateJobCurrentLevel(js, j, level) ==
    IF j \in DOMAIN js THEN [js EXCEPT ![j].currentLevel = level] ELSE js

\* updateJobSubAnalysis(jobId, subAnalysis)
UpdateJobSubAnalysis(js, j, sub) ==
    IF j \in DOMAIN js THEN [js EXCEPT ![j].subAnalysis = sub] ELSE js

\* addNode(jobId, node): the graph part and the job-stats part
AddNodeGraph(gs, j, node) ==
    IF j \in DOMAIN gs THEN [gs EXCEPT ![j].nodes = Append(@, node)] ELSE gs
\* an addNode that leaves the job's totals as they were
AddNodeStatsSkipped(js, gs, j) == js
\* the job-stats part: job.totalNodes = graph.nodes.length
AddNodeStats(js, gs, j) ==
    IF j \in DOMAIN gs /\ j \in DOMAIN js
    THEN [js EXCEPT ![j].totalNodes = Len(gs[j].nodes)] ELSE js

\* addEdge(jobId, edge): the graph part and the job-stats part
AddEdgeGraph(gs, j, edge) ==
    IF j \in DOMAIN gs THEN [gs EXCEPT ![j].edges = Append(@, edge)] ELSE gs
AddEdgeStats(js, gs, j) ==
    IF j \in DOMAIN gs /\ j \in DOMAIN js
    THEN [js EXCEPT ![j].totalEdges = Len(gs[j].edges)] ELSE js

\* getJobGraph(jobId)
GetJobGraph(j) == IF j \in DOMAIN jobGraphs THEN jobGraphs[j] ELSE NewGraph

(***************************************************************************)
(* Start requests (DiscoveryConfigSchema) and what Reddit and the LLM      *)
(* answer                                                                  *)
(***************************************************************************)
Niche == <<"A", "i">>

MaxLevelsAccepted == 10     \* DiscoveryConfigSchema: maxLevels max(10)
MaxNodesAccepted == 100     \* DiscoveryConfigSchema: maxNodesPerLevel max(100)

Configs ==
    [niche : {Niche}, maxLevels : 1..MaxLevelsBound,
     maxNodesPerLevel : {MaxNodesBound}, sources : {<<"reddit">>, <<"twitter">>}]

RegisteredPlatforms == {"reddit"}       \* initializeAnalyzers registers RedditAnalyzer

\* display_name of the index-th subreddit found (names are unique)
SubredditName(index) == <<"r">> \o Digits(index)

\* the label the LLM gives a subreddit's best sub-niche
LlmLabels == { <<"R", "0">> }

\* the labels of the topics extracted for a parent
TopicLabels == { <<"t">> }

(***************************************************************************)
(* The expansion task: runRealDiscovery -> runDiscoveryWithAnalyzers ->    *)
(* analyzeWithMultiplePlatforms -> RedditAnalyzer.analyze ->               *)
(* combineResults -> storeAnalyzerResults, with the catch and finally      *)
(* handlers startDiscovery attaches.  pc names the next statement; the     *)
(* pcs "search", "llm" and "topics" wait for a network answer.             *)
(***************************************************************************)
NoErr == [name |-> "", message |-> ""]
AbortErr == [name |-> "AbortError", message |-> "Discovery job was cancelled"]
PlainErr(message) == [name |-> "Error", message |-> message]

YieldPcs == {"search", "llm", "topics", "settled", "done"}

NewTask(j, kind, config) ==
    [job |-> j, kind |-> kind, pc |-> "setDiscovering", err |-> NoErr,
     config |-> config, subs |-> 0, index |-> 0, level |-> 0, label |-> <<>>,
     nodes |-> <<>>, allNodes |-> <<>>, allEdges |-> <<>>,
     levelNodes |-> <<>>, levelEdges |-> <<>>, apiCalls |-> 0,
     result |-> CombineResults(<<>>), storeIdx |-> 0]

TaskIds == 1..Len(tasks)

\* every job is started once, and simulateDiscovery is called MaxSimulations times
TaskSlots == 1..(Cardinality(JobIds) + MaxSimulations)

Sub(total, completed, item, step, progress) ==
    [has |-> TRUE, totalItems |-> total, completedItems |-> completed,
     currentItem |-> item, currentStep |-> step, currentItemProgress |-> progress]

\* a callback that writes the sub-analysis of every call, present or not
CallbackWritesAbsent(js, j, level, sub) ==
    UpdateJobSubAnalysis(UpdateJobCurrentLevel(js, j, level), j, sub)

\* what progressCallback writes on the job record when it does not throw
CallbackWrites(js, j, level, sub) ==
    IF sub.has
    THEN UpdateJobSubAnalysis(UpdateJobCurrentLevel(js, j, level), j, sub)
    ELSE UpdateJobCurrentLevel(js, j, level)

\* a progressCallback that does not look at cancelledJobs
CallbackUnchecked(t, level, sub, next, thrown) ==
    /\ jobs' = CallbackWrites(jobs, tasks[t].job, level, sub)
    /\ tasks' = [tasks EXCEPT ![t] = next]

\* progressCallback(progress) called by task t; next is the task when the
\* callback returns, thrown the task when it throws the AbortError
Callback(t, level, sub, next, thrown) ==
    IF tasks[t].job \in cancelledJobs
    THEN /\ tasks' = [tasks EXCEPT ![t] = thrown]
         /\ UNCHANGED jobs
    ELSE /\ jobs' = CallbackWrites(jobs, tasks[t].job, level, sub)
         /\ tasks' = [tasks EXCEPT ![t] = next]

\* control leaves the frames of task for pc with err pending: their locals
\* are gone
Unwind(task, pc, err) ==
    [NewTask(task.job, task.kind, task.config) EXCEPT !.pc = pc, !.err = err]

\* the AbortError of a callback outside the inner try blocks reaches the
\* catch of analyze
Abort(task) == Unwind(task, "cb344", AbortErr)

\* the code of task t runs on from the statement at pc, and gives up the
\* event loop when it reaches an await of a network answer or its end
Runs(t, pc) ==
    /\ t \in TaskIds
    /\ running = t
    /\ tasks[t].pc = pc

Yields(t) == running' = IF tasks'[t].pc \in YieldPcs THEN 0 ELSE t

\* a network answer arrives for task t waiting at pc
Resumes(t, pc) ==
    /\ t \in TaskIds
    /\ running = 0
    /\ tasks[t].pc = pc

RootNode(platform, niche) ==
    [id |-> "root", label |-> niche, level |-> 0, type |-> "niche",
     source |-> platform, confidence |-> 75, popularity |-> 0,
     data |-> SomeData([specificity_score |-> 1])]

SubNicheNode(platform, level, index, label, confidence, data) ==
    [id |-> "node-" \o ToString(level) \o "-" \o ToString(index), label |-> label,
     level |-> level, type |-> IF level = 1 THEN "sub-niche" ELSE "topic",
     source |-> platform, confidence |-> confidence, popularity |-> 1000,
     data |-> data]

TopicNode(platform, level, parent, index, label) ==
    [id |-> "node-" \o ToString(level) \o "-" \o parent.id \o "-" \o ToString(index),
     label |-> label, level |-> level, type |-> "topic", source |-> platform,
     confidence |-> 70, popularity |-> 10,
     data |-> SomeData([parent_subniche |-> parent.label])]

ContainsEdge(platform, idPrefix, parent, child, confidence) ==
    [id |-> "edge-" \o idPrefix \o "-" \o child.id, source |-> parent.id,
     target |-> child.id, relationship |-> "contains", confidence |-> confidence,
     source_platform |-> platform]

ParentNodes(task) == SelectSeq(task.allNodes, LAMBDA n : n.level = task.level - 1)

\* runRealDiscovery: updateJobStatus(jobId, 'discovering')
SetDiscovering(t) ==
    /\ Runs(t, "setDiscovering")
    /\ jobs' = UpdateJobStatus(jobs, tasks[t].job, "discovering", Undefined)
    /\ tasks' = [tasks EXCEPT ![t].pc = "analyzers"]
    /\ Yields(t)
    /\ UNCHANGED <<otherVars, jobGraphs, cancelledJobs, activeJobs, lastCancel>>

\* analyzeWithMultiplePlatforms: the analyzers of the requested platforms
GetAnalyzers(t) ==
    /\ Runs(t, "analyzers")
    /\ LET found == SelectSeq(tasks[t].config.sources,
                              LAMBDA p : p \in RegisteredPlatforms)
       IN  tasks' = [tasks EXCEPT ![t] =
               IF found = <<>>
               THEN [@ EXCEPT !.pc = "catchRun",
                              !.err = PlainErr("No analyzers found for platforms: "
                                               \o Join(tasks[t].config.sources, ", "))]
               ELSE [@ EXCEPT !.pc = "cb105"]]
    /\ Yields(t)
    /\ UNCHANGED <<otherVars, jobs, jobGraphs, cancelledJobs, activeJobs, lastCancel>>

\* analyze: 'Initializing Reddit analysis...'
Cb105(t) ==
    /\ Runs(t, "cb105")
    /\ Callback(t, 0, NoSubAnalysis,
                [tasks[t] EXCEPT !.pc = "cb141",
                     !.allNodes = <<RootNode("reddit", tasks[t].config.niche)>>],
                Abort(tasks[t]))
    /\ Yields(t)
    /\ UNCHANGED <<otherVars, jobGraphs, cancelledJobs, activeJobs, lastCancel>>

\* analyze: 'Searching Reddit for related content...', then searchReddit
Cb141(t) ==
    /\ Runs(t, "cb141")
    /\ Callback(t, 0, Sub(1, 0, tasks[t].config.niche, "fetching", 10),
                [tasks[t] EXCEPT !.pc = "search"], Abort(tasks[t]))
    /\ Yields(t)
    /\ UNCHANGED <<otherVars, jobGraphs, cancelledJobs, activeJobs, lastCancel>>

\* searchReddit fails
SearchFails(t) ==
    /\ Resumes(t, "search")
    /\ tasks' = [tasks EXCEPT ![t] =
                     Unwind(@, "cb344", PlainErr("Reddit search failed"))]
    /\ running' = t
    /\ UNCHANGED <<otherVars, jobs, jobGraphs, cancelledJobs, activeJobs, lastCancel>>

\* searchReddit and extractSubreddits answer with n subreddits
SearchReturns(t) ==
    /\ Resumes(t, "search")
    /\ \E n \in 0..tasks[t].config.maxNodesPerLevel :
          tasks' = [tasks EXCEPT ![t].pc = "cb164", ![t].subs = n,
                                 ![t].apiCalls = @ + 1]
    /\ running' = t
    /\ UNCHANGED <<otherVars, jobs, jobGraphs, cancelledJobs, activeJobs, lastCancel>>

\* createNodesFromSubredditsWithLLM: the loop goes to the next subreddit, or
\* returns; analyze then pushes the level-1 nodes and their edges from root
NextSubreddit(task, node) ==
    LET nodes == Append(task.nodes, node)
    IN  IF task.index + 1 < task.subs
        THEN [task EXCEPT !.pc = "cb498", !.nodes = nodes, !.index = @ + 1,
                          !.label = <<>>]
        ELSE [task EXCEPT !.pc = "cb192", !.nodes = <<>>, !.index = 0,
                 !.label = <<>>, !.subs = 0,
                 !.allNodes = @ \o nodes,
                 !.allEdges = @ \o [i \in 1..Len(nodes) |->
                     ContainsEdge("reddit", "root", task.allNodes[1], nodes[i], 80)]]

\* analyze: 'Found n subreddits, analyzing...'
Cb164(t) ==
    /\ Runs(t, "cb164")
    /\ Callback(t, 1, Sub(tasks[t].subs, 0, <<"p">>, "processing", 0),
                IF tasks[t].subs > 0
                THEN [tasks[t] EXCEPT !.pc = "cb498", !.index = 0, !.nodes = <<>>]
                ELSE [tasks[t] EXCEPT !.pc = "cb192", !.nodes = <<>>, !.subs = 0],
                Abort(tasks[t]))
    /\ Yields(t)
    /\ UNCHANGED <<otherVars, jobGraphs, cancelledJobs, activeJobs, lastCancel>>

\* createNodesFromSubredditsWithLLM: 'Analyzing subreddit i/n...', then the
\* LLM call
Cb498(t) ==
    /\ Runs(t, "cb498")
    /\ Callback(t, 1, Sub(tasks[t].subs, tasks[t].index,
                          SubredditName(tasks[t].index), "llm_analysis", 0),
                [tasks[t] EXCEPT !.pc = "llm"], Abort(tasks[t]))
    /\ Yields(t)
    /\ UNCHANGED <<otherVars, jobGraphs, cancelledJobs, activeJobs, lastCancel>>

\* extractSubNichesFromSubreddit answers (its own failures end in its
\* fallback list): with a best sub-niche, or with none
LlmReturns(t) ==
    /\ Resumes(t, "llm")
    /\ \E label \in LlmLabels \cup {<<>>} :
          tasks' = [tasks EXCEPT ![t].pc = "cb524", ![t].label = label]
    /\ running' = t
    /\ UNCHANGED <<otherVars, jobs, jobGraphs, cancelledJobs, activeJobs, lastCancel>>

\* the same answer with a best sub-niche of another label: two calls for one
\* subreddit need not give the same label
LlmReturnsOther(t) ==
    /\ Resumes(t, "llm")
    /\ tasks' = [tasks EXCEPT ![t].pc = "cb524", ![t].label = <<"B", "i">>]
    /\ running' = t
    /\ UNCHANGED <<otherVars, jobs, jobGraphs, cancelledJobs, activeJobs, lastCancel>>

\* createNodesFromSubredditsWithLLM: 'Processing r/...' inside the try, then
\* the node of the LLM's label or of the subreddit's name; an AbortError of
\* the callback is caught by the same try and pushes the fallback node
Cb524(t) ==
    /\ Runs(t, "cb524")
    /\ LET task == tasks[t]
           name == SubredditName(task.index)
       IN  Callback(t, 1, Sub(task.subs, task.index, name, "processing", 75),
                NextSubreddit(task,
                    IF task.label # <<>>
                    THEN SubNicheNode("reddit", 1, task.index, task.label, 80,
                                      SomeData([original_subreddit |-> name]))
                    ELSE SubNicheNode("reddit", 1, task.index, name, 60,
                                      SomeData([subscribers |-> 1000]))),
                NextSubreddit(task,
                    SubNicheNode("reddit", 1, task.index, name, 50,
                                 SomeData([subscribers |-> 1000]))))
    /\ Yields(t)
    /\ UNCHANGED <<otherVars, jobGraphs, cancelledJobs, activeJobs, lastCancel>>

\* analyze: 'Found n subreddits, analyzing deeper levels...', then the level
\* loop starts at level 2
Cb192(t) ==
    /\ Runs(t, "cb192")
    /\ Callback(t, 1, NoSubAnalysis,
                IF 2 <= tasks[t].config.maxLevels
                THEN [tasks[t] EXCEPT !.pc = "cb211", !.level = 2,
                                      !.levelNodes = <<>>, !.levelEdges = <<>>]
                ELSE [tasks[t] EXCEPT !.pc = "cb312"],
                Abort(tasks[t]))
    /\ Yields(t)
    /\ UNCHANGED <<otherVars, jobGraphs, cancelledJobs, activeJobs, lastCancel>>

\* analyze: 'Level L: Analyzing P parent nodes...'
Cb211(t) ==
    /\ Runs(t, "cb211")
    /\ Callback(t, tasks[t].level,
                Sub(Len(ParentNodes(tasks[t])), 0, <<"p">>, "fetching", 0),
                IF Len(ParentNodes(tasks[t])) > 0
                THEN [tasks[t] EXCEPT !.pc = "cb233", !.index = 0]
                ELSE [tasks[t] EXCEPT !.pc = "cb300"],
                Abort(tasks[t]))
    /\ Yields(t)
    /\ UNCHANGED <<otherVars, jobGraphs, cancelledJobs, activeJobs, lastCancel>>

\* a loop that leaves the level after the parent at hand
LeaveLevel(task) == [task EXCEPT !.pc = "cb300", !.index = 0]

\* a per-parent loop over parentNodes.slice(0, config.maxNodesPerLevel)
NextParentCapped(task) ==
    IF /\ task.index + 1 < Len(ParentNodes(task))
       /\ task.index + 1 < task.config.maxNodesPerLevel
    THEN [task EXCEPT !.pc = "cb233", !.index = @ + 1]
    ELSE [task EXCEPT !.pc = "cb300", !.index = 0]

\* the per-parent loop goes to the next parent, or the level ends
NextParent(task) ==
    IF task.index + 1 < Len(ParentNodes(task))
    THEN [task EXCEPT !.pc = "cb233", !.index = @ + 1]
    ELSE [task EXCEPT !.pc = "cb300", !.index = 0]

\* analyze: 'Level L: Analyzing "parent" (i/P)...' inside the per-parent try,
\* then extractTopicsFromSubredditWithLLM; an AbortError of the callback is
\* caught by the per-parent catch and the loop continues
Cb233(t) ==
    /\ Runs(t, "cb233")
    /\ LET task == tasks[t]
           parents == ParentNodes(task)
       IN  Callback(t, task.level,
                Sub(Len(parents), task.index, parents[task.index + 1].label,
                    "llm_analysis", 25),
                [task EXCEPT !.pc = "topics"],
                NextParent(task))
    /\ Yields(t)
    /\ UNCHANGED <<otherVars, jobGraphs, cancelledJobs, activeJobs, lastCancel>>

TopicsPerParent == 3

\* the task after extractTopicsFromSubredditWithLLM has answered with topics:
\* at most three of them become nodes of the level, with their edges
AfterTopics(task, topics) ==
    LET parent == ParentNodes(task)[task.index + 1]
        kept   == SubSeq(topics, 1, IF Len(topics) < TopicsPerParent
                                    THEN Len(topics) ELSE TopicsPerParent)
        topicNodes == [i \in 1..Len(kept) |->
                          TopicNode("reddit", task.level, parent, i - 1, kept[i])]
        topicEdges == [i \in 1..Len(kept) |->
                          ContainsEdge("reddit", parent.id, parent, topicNodes[i], 70)]
    IN  NextParent([task EXCEPT !.apiCalls = @ + 1,
                                !.levelNodes = @ \o topicNodes,
                                !.levelEdges = @ \o topicEdges])

\* extractTopicsFromSubredditWithLLM answers with topics; it catches its own
\* failures and answers with the fallback topics or with none
TopicsReturn(t) ==
    /\ Resumes(t, "topics")
    /\ \E topics \in SeqsUpTo(TopicLabels, MaxTopics) :
          tasks' = [tasks EXCEPT ![t] = AfterTopics(tasks[t], topics)]
    /\ running' = t
    /\ UNCHANGED <<otherVars, jobs, jobGraphs, cancelledJobs, activeJobs, lastCancel>>

\* the same answer, with one topic more than the other specifications allow
TopicsReturnMany(t) ==
    /\ Resumes(t, "topics")
    /\ \E topics \in SeqsUpTo(TopicLabels, MaxTopics + 1) :
          tasks' = [tasks EXCEPT ![t] = AfterTopics(tasks[t], topics)]
    /\ running' = t
    /\ UNCHANGED <<otherVars, jobs, jobGraphs, cancelledJobs, activeJobs, lastCancel>>

\* analyze: the level's nodes and edges are pushed, 'Level L: Found k
\* topics'; the loop breaks on an empty level or after maxLevels
\* a level loop that goes on to the next level after an empty level
AfterLevelNoBreak(task) ==
    IF task.level + 1 <= task.config.maxLevels
    THEN [task EXCEPT !.pc = "cb211", !.level = @ + 1,
                      !.levelNodes = <<>>, !.levelEdges = <<>>]
    ELSE [task EXCEPT !.pc = "cb312"]

\* if (levelNodes.length === 0) break; and the loop condition level <= maxLevels
AfterLevel(task) ==
    IF task.levelNodes # <<>> /\ task.level + 1 <= task.config.maxLevels
    THEN [task EXCEPT !.pc = "cb211", !.level = @ + 1,
                      !.levelNodes = <<>>, !.levelEdges = <<>>]
    ELSE [task EXCEPT !.pc = "cb312"]

Cb300(t) ==
    /\ Runs(t, "cb300")
    /\ LET task == [tasks[t] EXCEPT !.allNodes = @ \o tasks[t].levelNodes,
                                    !.allEdges = @ \o tasks[t].levelEdges]
       IN  Callback(t, task.level, NoSubAnalysis, AfterLevel(task), Abort(task))
    /\ Yields(t)
    /\ UNCHANGED <<otherVars, jobGraphs, cancelledJobs, activeJobs, lastCancel>>

\* analyze: 'Reddit analysis complete', the result is returned and
\* analyzeWithMultiplePlatforms combines the results of the analyzers
Cb312(t) ==
    /\ Runs(t, "cb312")
    /\ LET task == tasks[t]
           result == [nodes |-> task.allNodes, edges |-> task.allEdges,
                      metadata |-> [platform |-> "reddit", apiCalls |-> task.apiCalls,
                                    errors |-> <<>>]]
       IN  Callback(t, task.config.maxLevels, NoSubAnalysis,
                [Unwind(task, "store", NoErr) EXCEPT
                             !.result = CombineResults(<<result>>)],
                Abort(task))
    /\ Yields(t)
    /\ UNCHANGED <<otherVars, jobGraphs, cancelledJobs, activeJobs, lastCancel>>

\* the catch of analyze: 'Error: ...' is reported through the callback
\* (which throws again for a cancelled job), the error is thrown on
Cb344(t) ==
    /\ Runs(t, "cb344")
    /\ Callback(t, 0, NoSubAnalysis,
                [tasks[t] EXCEPT !.pc = "registryCatch"],
                [tasks[t] EXCEPT !.pc = "registryCatch", !.err = AbortErr])
    /\ Yields(t)
    /\ UNCHANGED <<otherVars, jobGraphs, cancelledJobs, activeJobs, lastCancel>>

\* analyzeWithMultiplePlatforms: the catch around analyzer.analyze records
\* the message and returns null; no result is left, so it throws
RegistryCatch(t) ==
    /\ Runs(t, "registryCatch")
    /\ tasks' = [tasks EXCEPT ![t].pc = "catchRun",
           ![t].err = PlainErr("All analyzers failed. Errors: Error in reddit analyzer: "
                               \o tasks[t].err.message)]
    /\ Yields(t)
    /\ UNCHANGED <<otherVars, jobs, jobGraphs, cancelledJobs, activeJobs, lastCancel>>

\* the DiscoveryNode / DiscoveryEdge storeAnalyzerResults builds
DiscoveryNodeOf(n) ==
    [id |-> n.id, label |-> n.label, level |-> n.level, type |-> n.type,
     source |-> n.source, confidence |-> n.confidence, popularity |-> n.popularity,
     data |-> n.data]
DiscoveryEdgeOf(e) ==
    [id |-> e.id, source |-> e.source, target |-> e.target,
     relationship |-> e.relationship]

\* storeAnalyzerResults: one addNode or addEdge; then runRealDiscovery goes on
StoreResults(t) ==
    /\ Runs(t, "store")
    /\ LET task == tasks[t]
           j    == task.job
           k    == task.storeIdx + 1
           nn   == Len(task.result.nodes)
           ne   == Len(task.result.edges)
       IN  IF k <= nn
           THEN /\ jobGraphs' = AddNodeGraph(jobGraphs, j, DiscoveryNodeOf(task.result.nodes[k]))
                /\ jobs' = AddNodeStats(jobs, jobGraphs', j)
                /\ tasks' = [tasks EXCEPT ![t].storeIdx = k]
           ELSE IF k <= nn + ne
           THEN /\ jobGraphs' = AddEdgeGraph(jobGraphs, j, DiscoveryEdgeOf(task.result.edges[k - nn]))
                /\ jobs' = AddEdgeStats(jobs, jobGraphs', j)
                /\ tasks' = [tasks EXCEPT ![t].storeIdx = k]
           ELSE /\ tasks' = [tasks EXCEPT ![t] = Unwind(@, "setComplete", NoErr)]
                /\ UNCHANGED <<jobs, jobGraphs>>
    /\ Yields(t)
    /\ UNCHANGED <<otherVars, cancelledJobs, activeJobs, lastCancel>>

\* runRealDiscovery: updateJobStatus(jobId, 'complete')
SetComplete(t) ==
    /\ Runs(t, "setComplete")
    /\ jobs' = UpdateJobStatus(jobs, tasks[t].job, "complete", Undefined)
    /\ tasks' = [tasks EXCEPT ![t].pc = IF tasks[t].kind = "start" THEN "finally" ELSE "done"]
    /\ Yields(t)
    /\ UNCHANGED <<otherVars, jobGraphs, cancelledJobs, activeJobs, lastCancel>>

\* runRealDiscovery: catch (error) { updateJobStatus(jobId, 'error', message);
\* throw error }
CatchRun(t) ==
    /\ Runs(t, "catchRun")
    /\ jobs' = UpdateJobStatus(jobs, tasks[t].job, "error", tasks[t].err.message)
    /\ tasks' = [tasks EXCEPT ![t].pc = IF tasks[t].kind = "start" THEN "catchStart" ELSE "done"]
    /\ Yields(t)
    /\ UNCHANGED <<otherVars, jobGraphs, cancelledJobs, activeJobs, lastCancel>>

\* startDiscovery: .catch(error => ...)
CatchStart(t) ==
    /\ Runs(t, "catchStart")
    /\ jobs' = IF tasks[t].err.name = "AbortError"
               THEN UpdateJobStatus(jobs, tasks[t].job, "cancelled",
                                    "Job was cancelled by user")
               ELSE UpdateJobStatus(jobs, tasks[t].job, "error", tasks[t].err.message)
    /\ tasks' = [tasks EXCEPT ![t] = Unwind(@, "finally", NoErr)]
    /\ Yields(t)
    /\ UNCHANGED <<otherVars, jobGraphs, cancelledJobs, activeJobs, lastCancel>>

\* a finally handler that forgets activeJobs.delete(job.id)
FinallyKeepsEntry(t) ==
    /\ Runs(t, "finally")
    /\ cancelledJobs' = cancelledJobs \ {tasks[t].job}
    /\ tasks' = [tasks EXCEPT ![t] = Unwind(@, "done", NoErr)]
    /\ Yields(t)
    /\ UNCHANGED <<otherVars, jobs, jobGraphs, activeJobs, lastCancel>>

\* startDiscovery: .finally(() => ...)
Finally(t) ==
    /\ Runs(t, "finally")
    /\ activeJobs' = activeJobs \ {tasks[t].job}
    /\ cancelledJobs' = cancelledJobs \ {tasks[t].job}
    /\ tasks' = [tasks EXCEPT ![t] = Unwind(@, "done", NoErr)]
    /\ Yields(t)
    /\ UNCHANGED <<otherVars, jobs, jobGraphs, lastCancel>>

(***************************************************************************)
(* analyzeWithMultiplePlatforms with several analyzers found: the calls of *)
(* analyze run in parallel for the same job and Promise.all waits for all  *)
(* of them.  The task of runRealDiscovery runs the first call; every other *)
(* call is a task of kind "analyzer".  A call that has returned or thrown  *)
(* waits at "settled" with its result or its error.                        *)
(***************************************************************************)
AnalyzersOf(j) == {t \in TaskIds : tasks[t].job = j}

\* analyzers.map(async (analyzer, index) => ...): each call of analyze runs
\* to its first await ('Initializing Reddit analysis...'), then each runs on
\* to searchReddit ('Searching Reddit for related content...')
InvokeAnalyzers(t) ==
    /\ Runs(t, "analyzers")
    /\ tasks[t].job \notin cancelledJobs
    /\ LET task  == tasks[t]
           found == SelectSeq(task.config.sources,
                              LAMBDA p : p \in RegisteredPlatforms)
           call  == [task EXCEPT !.pc = "search",
                                 !.allNodes = <<RootNode("reddit", task.config.niche)>>]
       IN  /\ Len(found) > 1
           /\ tasks' = [tasks EXCEPT ![t] = call]
                           \o [i \in 1..(Len(found) - 1) |->
                                  [call EXCEPT !.kind = "analyzer"]]
           /\ jobs' = CallbackWrites(
                          CallbackWrites(jobs, task.job, 0, NoSubAnalysis),
                          task.job, 0, Sub(1, 0, task.config.niche, "fetching", 10))
    /\ Yields(t)
    /\ UNCHANGED <<otherVars, jobGraphs, cancelledJobs, activeJobs, lastCancel>>

\* analyze: 'Reddit analysis complete', the result is returned to the
\* registry
AnalyzerReturns(t) ==
    /\ Runs(t, "cb312")
    /\ LET task == tasks[t]
           result == [nodes |-> task.allNodes, edges |-> task.allEdges,
                      metadata |-> [platform |-> "reddit", apiCalls |-> task.apiCalls,
                                    errors |-> <<>>]]
       IN  Callback(t, task.config.maxLevels, NoSubAnalysis,
                [Unwind(task, "settled", NoErr) EXCEPT !.result = result],
                Abort(task))
    /\ Yields(t)
    /\ UNCHANGED <<otherVars, jobGraphs, cancelledJobs, activeJobs, lastCancel>>

\* the catch of analyze: 'Error: ...' is reported through the callback with
\* currentLevel 0 and the error is thrown on; the catch of the registry
\* records it and returns null
AnalyzerThrows(t) ==
    /\ Runs(t, "cb344")
    /\ Callback(t, 0, NoSubAnalysis,
                [tasks[t] EXCEPT !.pc = "settled"],
                [tasks[t] EXCEPT !.pc = "settled", !.err = AbortErr])
    /\ Yields(t)
    /\ UNCHANGED <<otherVars, jobGraphs, cancelledJobs, activeJobs, lastCancel>>

\* await Promise.all(analysisPromises): every call has settled; the results
\* of the calls that returned are combined, and with none the registry throws
AllSettled(t) ==
    /\ Resumes(t, "settled")
    /\ tasks[t].kind # "analyzer"
    /\ \A a \in AnalyzersOf(tasks[t].job) : tasks[a].pc = "settled"
    /\ LET calls  == SelectSeq([i \in 1..Len(tasks) |-> tasks[i]],
                               LAMBDA a : a.job = tasks[t].job)
           done   == SelectSeq(calls, LAMBDA a : a.err = NoErr)
           failed == SelectSeq(calls, LAMBDA a : a.err # NoErr)
           errors == [i \in 1..Len(failed) |->
                         "Error in reddit analyzer: " \o failed[i].err.message]
       IN  tasks' = [a \in 1..Len(tasks) |->
               IF a = t
               THEN IF done = <<>>
                    THEN Unwind(tasks[t], "catchRun",
                                PlainErr("All analyzers failed. Errors: "
                                         \o Join(errors, "; ")))
                    ELSE [Unwind(tasks[t], "store", NoErr) EXCEPT
                             !.result = CombineResults(
                                            [i \in 1..Len(done) |-> done[i].result])]
               ELSE IF tasks[a].job = tasks[t].job
               THEN Unwind(tasks[a], "done", NoErr)
               ELSE tasks[a]]
    /\ running' = t
    /\ UNCHANGED <<otherVars, jobs, jobGraphs, cancelledJobs, activeJobs, lastCancel>>

(***************************************************************************)
(* DiscoveryServiceImpl: the requests                                      *)
(***************************************************************************)
\* startDiscovery(config): createJob, activeJobs.set, runRealDiscovery
\* called (it runs to its first await of a network answer)
StartJob(j, config) ==
    /\ jobs' = [i \in DOMAIN jobs \cup {j} |->
                   IF i = j THEN NewJob(config) ELSE jobs[i]]
    /\ jobGraphs' = [i \in DOMAIN jobGraphs \cup {j} |->
                   IF i = j THEN NewGraph ELSE jobGraphs[i]]
    /\ activeJobs' = activeJobs \cup {j}
    /\ tasks' = Append(tasks, NewTask(j, "start", config))
    /\ running' = Len(tasks) + 1
    /\ UNCHANGED <<cancelledJobs, lastCancel>>

StartDiscovery ==
    /\ running = 0
    /\ \E j \in JobIds \ DOMAIN jobs, config \in Configs : StartJob(j, config)
    /\ UNCHANGED otherVars

\* the bodies of POST /api/discover: each field valid or not
Bodies ==
    [niche : {<<>>, Niche}, maxLevels : 0..MaxLevelsBound \cup {MaxLevelsAccepted + 1},
     maxNodesPerLevel : {0, MaxNodesBound},
     sources : {<<>>, <<"reddit">>, <<"twitter">>}]

\* a schema that lets maxLevels 0 through
DiscoveryConfigSchemaFromZero(body) ==
    /\ Len(body.niche) >= 1
    /\ body.maxLevels >= 0 /\ body.maxLevels <= MaxLevelsAccepted
    /\ body.maxNodesPerLevel >= 1 /\ body.maxNodesPerLevel <= MaxNodesAccepted
    /\ Len(body.sources) >= 1

\* DiscoveryConfigSchema.safeParse(body).success, for a body of the right types
DiscoveryConfigSchema(body) ==
    /\ Len(body.niche) >= 1
    /\ body.maxLevels >= 1 /\ body.maxLevels <= MaxLevelsAccepted
    /\ body.maxNodesPerLevel >= 1 /\ body.maxNodesPerLevel <= MaxNodesAccepted
    /\ Len(body.sources) >= 1

NoReply == [status |-> 0, body |-> Undefined, jobId |-> Undefined]

\* POST /api/discover: the validator compiler rejects the body with 400
\* before the handler runs; the handler answers what startDiscovery returns
PostDiscover ==
    /\ running = 0
    /\ \E body \in Bodies :
          IF DiscoveryConfigSchema(body)
          THEN \E j \in JobIds \ DOMAIN jobs :
                   /\ StartJob(j, body)
                   /\ lastReply' = [status |-> 200, body |-> body, jobId |-> j]
          ELSE /\ lastReply' = [status |-> 400, body |-> body, jobId |-> Undefined]
               /\ UNCHANGED serviceVars
    /\ UNCHANGED <<mergeVars, clientVars, conns>>

\* simulateDiscovery(jobId): activeJobs.set, runRealDiscovery called; for an
\* unknown job runRealDiscovery throws 'Job not found' at once
SimulateDiscovery ==
    /\ running = 0
    /\ \E j \in JobIds \cup {UnknownId} :
          /\ activeJobs' = activeJobs \cup {j}
          /\ IF j \in DOMAIN jobs
             THEN /\ Cardinality({t \in TaskIds : tasks[t].kind = "simulate"})
                         < MaxSimulations
                  /\ tasks' = Append(tasks, NewTask(j, "simulate", jobs[j].config))
                  /\ running' = Len(tasks) + 1
             ELSE /\ j \notin activeJobs
                  /\ UNCHANGED <<tasks, running>>
    /\ UNCHANGED <<otherVars, jobs, jobGraphs, cancelledJobs, lastCancel>>

NoCancel == [job |-> UnknownId, success |-> FALSE, before |-> Undefined]

\* cancelJob(jobId)
CancelJobOf(j) ==
    LET before == IF j \in DOMAIN jobs THEN jobs[j].status ELSE Undefined
    IN  IF j \notin activeJobs
        THEN /\ lastCancel' = [job |-> j, success |-> FALSE, before |-> before]
             /\ UNCHANGED <<jobs, cancelledJobs>>
        ELSE /\ cancelledJobs' = cancelledJobs \cup {j}
             /\ jobs' = UpdateJobStatus(jobs, j, "cancelled",
                                        "Job was cancelled by user")
             /\ lastCancel' = [job |-> j, success |-> TRUE, before |-> before]

CancelJob ==
    /\ running = 0
    /\ \E j \in JobIds \cup {UnknownId} : CancelJobOf(j)
    /\ UNCHANGED <<otherVars, jobGraphs, activeJobs, tasks, running>>

TaskNext(t) ==
    \/ SetDiscovering(t) \/ GetAnalyzers(t)
    \/ Cb105(t) \/ Cb141(t) \/ SearchFails(t) \/ SearchReturns(t)
    \/ Cb164(t) \/ Cb498(t) \/ LlmReturns(t) \/ Cb524(t)
    \/ Cb192(t) \/ Cb211(t) \/ Cb233(t) \/ TopicsReturn(t)
    \/ Cb300(t) \/ Cb312(t) \/ Cb344(t) \/ RegistryCatch(t)
    \/ StoreResults(t) \/ SetComplete(t) \/ CatchRun(t) \/ CatchStart(t)
    \/ Finally(t)

InitService ==
    /\ jobs = <<>>
    /\ jobGraphs = <<>>
    /\ cancelledJobs = {}
    /\ activeJobs = {}
    /\ tasks = <<>>
    /\ running = 0
    /\ lastCancel = NoCancel

(***************************************************************************)
(* GET /api/discover/:jobId/stream                                         *)
(***************************************************************************)
Event(type, data) == [event |-> type, data |-> data]

\* Array.prototype.sort() without a comparator orders by the decimal text
RECURSIVE LexLess(_, _)
LexLess(a, b) ==
    IF a = <<>> THEN b # <<>>
    ELSE IF b = <<>> THEN FALSE
    ELSE IF Head(a) = Head(b) THEN LexLess(Tail(a), Tail(b))
    ELSE \E i, k \in 0..9 : ToString(i) = Head(a) /\ ToString(k) = Head(b) /\ i < k

RECURSIVE SortLevels(_)
SortLevels(S) ==
    IF S = {} THEN <<>>
    ELSE LET least == CHOOSE x \in S :
                         \A y \in S \ {x} : LexLess(Digits(x), Digits(y))
         IN  <<least>> \o SortLevels(S \ {least})

\* Object.keys(nodesByLevel).map(Number).sort()
Levels(graph) == SortLevels({graph.nodes[i].level : i \in 1..Len(graph.nodes)})

NodesOfLevel(graph, level) == SelectSeq(graph.nodes, LAMBDA n : n.level = level)

NodeEvents(graph, level) ==
    [i \in 1..Len(NodesOfLevel(graph, level)) |->
        Event("node_found", [node |-> NodesOfLevel(graph, level)[i]])]

\* edgeCount of level_completed: the edges whose source is the id of a node
\* of the level (find takes the first node with that id)
EdgeCount(graph, level) ==
    Len(SelectSeq(graph.edges, LAMBDA e :
        /\ \E i \in 1..Len(graph.nodes) : graph.nodes[i].id = e.source
        /\ LET first == CHOOSE i \in 1..Len(graph.nodes) :
                           /\ graph.nodes[i].id = e.source
                           /\ \A k \in 1..(i - 1) : graph.nodes[k].id # e.source
           IN  graph.nodes[first].level = level))

EdgeEvents(graph) ==
    [i \in 1..Len(graph.edges) |-> Event("edge_found", [edge |-> graph.edges[i]])]

DoneEvent(graph) ==
    Event("done", [totalNodes |-> Len(graph.nodes), totalEdges |-> Len(graph.edges),
                   completedLevels |-> Len(Levels(graph))])

\* the replay written inside the poll tick
PollTickReplay(graph) ==
    Flatten([i \in 1..Len(Levels(graph)) |->
        LET level == Levels(graph)[i]
        IN  <<Event("level_started", [level |-> level])>>
            \o NodeEvents(graph, level)
            \o <<Event("level_completed",
                       [level |-> level,
                        nodeCount |-> Len(NodesOfLevel(graph, level)),
                        edgeCount |-> EdgeCount(graph, level)])>>])
    \o EdgeEvents(graph) \o <<DoneEvent(graph)>>

\* the replay written at connection time
ConnectTimeReplay(graph) ==
    Flatten([i \in 1..Len(Levels(graph)) |->
        LET level == Levels(graph)[i]
        IN  <<Event("level_started", [level |-> level])>>
            \o NodeEvents(graph, level)])
    \o EdgeEvents(graph) \o <<DoneEvent(graph)>>

\* reply.raw.write on a connection: log is what was written before end(),
\* dropped what the handler still wrote after end()
Write(conn, events) ==
    IF conn.ended THEN [conn EXCEPT !.dropped = @ \o events]
    ELSE [conn EXCEPT !.log = @ \o events]

\* reply.raw.end() without clearInterval
EndKeepsPolling(conn) == [conn EXCEPT !.ended = TRUE]

\* clearInterval(pollInterval) and reply.raw.end() of a poll tick
EndPolling(conn) == [conn EXCEPT !.polling = FALSE, !.ended = TRUE]

\* the handler up to its return: headers, job lookup, 'connected', and
\* streamRealData, which either sets the poll interval or replays at once
\* a handler that polls only a job that is still starting
PollsOnlyStarting(j) == jobs[j].status = "starting"

\* streamRealData: if (jobGraph.nodes.length === 0) poll, else replay at once
PollsAtConnect(j) == Len(GetJobGraph(j).nodes) = 0

Connect ==
    /\ running = 0
    /\ Len(conns) < MaxConns
    /\ \E j \in JobIds \cup {UnknownId} :
          LET new == [job |-> j, log |-> <<>>, dropped |-> <<>>, ended |-> FALSE,
                      polling |-> FALSE,
                      ticks |-> 0, maxLevels |-> 0, connectedAt |-> Undefined]
              conn ==
                  IF j \notin DOMAIN jobs
                  THEN [Write(new, <<Event("error", [message |-> "Job not found",
                                                      code |-> "JOB_NOT_FOUND"])>>)
                           EXCEPT !.ended = TRUE]
                  ELSE LET connected ==
                               Write([new EXCEPT !.maxLevels = jobs[j].config.maxLevels,
                                                 !.connectedAt = jobs[j].status],
                                     <<Event("connected", [jobId |-> j,
                                                           status |-> jobs[j].status])>>)
                       IN  IF PollsAtConnect(j)
                           THEN [connected EXCEPT !.polling = TRUE]
                           ELSE [Write(connected, ConnectTimeReplay(GetJobGraph(j)))
                                    EXCEPT !.ended = TRUE]
          IN  conns' = Append(conns, conn)
    /\ UNCHANGED <<mergeVars, clientVars, serviceVars, lastReply>>

\* a progress that is not divided by maxLevels
ProgressPerLevel(job, maxLevels) ==
    IF job.status = "complete" THEN <<100, 1>> ELSE <<job.currentLevel * 100, 1>>

\* progress of the progress event; the division is kept as a pair
Progress(job, maxLevels) ==
    IF job.status = "complete" THEN <<100, 1>> ELSE <<job.currentLevel * 100, maxLevels>>

\* an error event that always carries the default message
FailedEventDefault(job) ==
    Event("error", [message |-> "Discovery failed", code |-> "DISCOVERY_ERROR"])

\* the error event of a failed job: updatedJob.error || 'Discovery failed'
FailedEvent(job) ==
    Event("error", [message |-> IF job.error \in {Undefined, ""}
                                THEN "Discovery failed" ELSE job.error,
                    code |-> "DISCOVERY_ERROR"])

\* a tick that finds the job like this clears the interval
EndsPolling(j) ==
    \/ jobs[j].status = "complete" /\ Len(GetJobGraph(j).nodes) > 0
    \/ jobs[j].status = "error"

\* one run of the setInterval callback (the ticks that leave the interval
\* running are counted against MaxTicks)
Tick ==
    /\ running = 0
    /\ \E c \in DOMAIN conns :
          /\ conns[c].polling
          /\ \/ SumSeq([i \in DOMAIN conns |-> conns[i].ticks]) < MaxTicks
             \/ EndsPolling(conns[c].job)
          /\ LET j == conns[c].job
                 updatedJob == jobs[j]
                 updatedGraph == GetJobGraph(j)
                 progressed ==
                     Write([conns[c] EXCEPT !.ticks = @ + 1],
                           <<Event("progress",
                                   [progress |-> Progress(updatedJob, conns[c].maxLevels),
                                    currentLevel |-> updatedJob.currentLevel,
                                    status |-> updatedJob.status,
                                    subAnalysis |-> updatedJob.subAnalysis])>>)
                 conn ==
                     IF updatedJob.status = "complete" /\ Len(updatedGraph.nodes) > 0
                     THEN EndPolling(Write(progressed, PollTickReplay(updatedGraph)))
                     ELSE IF updatedJob.status = "error"
                     THEN EndPolling(Write(progressed, <<FailedEvent(updatedJob)>>))
                     ELSE progressed
             IN  conns' = [conns EXCEPT ![c] = conn]
    /\ UNCHANGED <<mergeVars, clientVars, serviceVars, lastReply>>

\* a close handler that also cancels the job of the stream
DisconnectCancels ==
    /\ running = 0
    /\ \E c \in DOMAIN conns :
          /\ ~conns[c].ended
          /\ conns' = [conns EXCEPT ![c].ended = TRUE]
          /\ cancelledJobs' = cancelledJobs \cup {conns[c].job}
    /\ UNCHANGED <<mergeVars, clientVars, jobs, jobGraphs, activeJobs, tasks, running, lastCancel,
                   lastReply>>

\* request.raw.on('close'): the reply is ended, the interval is left running
Disconnect ==
    /\ running = 0
    /\ \E c \in DOMAIN conns :
          /\ ~conns[c].ended
          /\ conns' = [conns EXCEPT ![c].ended = TRUE]
    /\ UNCHANGED <<mergeVars, clientVars, serviceVars, lastReply>>

(***************************************************************************)
(* The client: discoveryMachine (xstate), its context and its events.      *)
(* A state of the machine is one of the names below; the two children of   *)
(* discovering are written "discovering.active" and "discovering.paused".  *)
(* Progress values are kept in hundredths (1.0 is 100).  A snapshot's id   *)
(* is random and unique: it is modelled by the snapshot's position; the    *)
(* timestamp is left out.                                                  *)
(***************************************************************************)
MachineStates ==
    {"idle", "configured", "starting", "discovering.active",
     "discovering.paused", "complete", "error"}

Discovering == {"discovering.active", "discovering.paused"}

Null == "<null>"                \* jobId: null, error: null
NullConfig == [null |-> TRUE]   \* config: null

EmptyGraph == [nodes |-> <<>>, edges |-> <<>>]
EmptyRecord == <<>>             \* {} : levelCounts, progress

\* initialContext
initialContext ==
    [config |-> NullConfig, jobId |-> Null, graph |-> EmptyGraph,
     snapshots |-> <<>>, currentLevel |-> 0, levelCounts |-> EmptyRecord,
     error |-> Null, progress |-> EmptyRecord, subAnalysis |-> NoSubAnalysis]

\* the configs a CONFIGURE event may carry: a valid one, and one failing each
\* condition of the START guard
ValidClientConfig ==
    [niche |-> Niche, maxLevels |-> 1, maxNodesPerLevel |-> 1,
     sources |-> <<"reddit">>]

ClientConfigs ==
    { ValidClientConfig,
      [ValidClientConfig EXCEPT !.niche = <<" ">>],
      [ValidClientConfig EXCEPT !.maxLevels = 0],
      [ValidClientConfig EXCEPT !.maxNodesPerLevel = 0],
      [ValidClientConfig EXCEPT !.sources = <<>>] }

\* the START guard without its check of the sources
StartCondNoSources(ctx) ==
    /\ ctx.config # NullConfig
    /\ Len(Trim(ctx.config.niche)) > 0
    /\ ctx.config.maxLevels > 0
    /\ ctx.config.maxNodesPerLevel > 0

\* configured.on.START.cond
StartCond(ctx) ==
    /\ ctx.config # NullConfig
    /\ Len(Trim(ctx.config.niche)) > 0
    /\ ctx.config.maxLevels > 0
    /\ ctx.config.maxNodesPerLevel > 0
    /\ Len(ctx.config.sources) > 0

\* { ...record, [key]: value }
Put(record, key, value) == (key :> value) @@ record

\* record[key] || 0
GetOrZero(record, key) == IF key \in DOMAIN record THEN record[key] ELSE 0

\* a CANCEL that keeps the error of the job it abandons
ResetJobKeepsError(ctx) ==
    [ctx EXCEPT !.jobId = Null, !.graph = EmptyGraph, !.currentLevel = 0,
                !.levelCounts = EmptyRecord, !.progress = EmptyRecord]

\* the assign of every CANCEL transition
ResetJob(ctx) ==
    [ctx EXCEPT !.jobId = Null, !.graph = EmptyGraph, !.currentLevel = 0,
                !.levelCounts = EmptyRecord, !.error = Null,
                !.progress = EmptyRecord]

\* the job ids cancelJobService sends DELETE /api/discover/:jobId for while
\* the machine handles event in state s: the one action that calls it is
\* the first action of CANCEL in complete, when there is a job id
CancelRequests(s, ctx, event) ==
    IF s = "complete" /\ event.type = "CANCEL" /\ ctx.jobId # Null
    THEN <<ctx.jobId>>
    ELSE <<>>

\* the assigns of CONFIGURE in complete and error
ConfigureAfterJob(ctx, config) ==
    [ctx EXCEPT !.config = config, !.error = Null, !.jobId = Null,
                !.graph = EmptyGraph, !.currentLevel = 0,
                !.levelCounts = EmptyRecord, !.progress = EmptyRecord]

\* the assign of CONFIGURE in idle and configured
ConfigureOnly(ctx, config) == [ctx EXCEPT !.config = config, !.error = Null]

\* the assign of every RESTORE_SNAPSHOT transition
RestoreSnapshot(ctx, snapshot) ==
    [ctx EXCEPT !.config = snapshot.config, !.graph = snapshot.graph,
                !.currentLevel = snapshot.currentLevel,
                !.levelCounts = snapshot.levelCounts,
                !.error = Null, !.jobId = Null, !.progress = EmptyRecord]

\* the assign of every SNAPSHOT transition
TakeSnapshot(ctx) ==
    IF ctx.config = NullConfig
    THEN ctx
    ELSE [ctx EXCEPT !.snapshots =
              Append(@, [id |-> Len(ctx.snapshots) + 1, config |-> ctx.config,
                         graph |-> ctx.graph,
                         currentLevel |-> ctx.currentLevel,
                         levelCounts |-> ctx.levelCounts])]

\* the machine after a transition: its state and its context
To(s, ctx) == [state |-> s, context |-> ctx]

\* states.idle.on
OnIdle(ctx, event) ==
    CASE event.type = "CONFIGURE" ->
            To("configured", ConfigureOnly(ctx, event.config))
      [] event.type = "RESTORE_SNAPSHOT" ->
            To("configured", RestoreSnapshot(ctx, event.snapshot))
      [] OTHER -> To("idle", ctx)

\* states.configured.on
OnConfigured(ctx, event) ==
    CASE event.type = "START" /\ StartCond(ctx) ->
            To("starting", [ctx EXCEPT !.error = Null])
      [] event.type = "CONFIGURE" ->
            To("configured", ConfigureOnly(ctx, event.config))
      [] event.type = "RESTORE_SNAPSHOT" ->
            To("configured", RestoreSnapshot(ctx, event.snapshot))
      [] event.type = "SNAPSHOT" -> To("configured", TakeSnapshot(ctx))
      [] OTHER -> To("configured", ctx)

\* event.data?.message || 'Failed to start job'
StartErrorMessage(message) ==
    IF message \in {Undefined, ""} THEN "Failed to start job" ELSE message

\* states.starting: invoke.onDone, invoke.onError and on
OnStarting(ctx, event) ==
    CASE event.type = "done.invoke.startJob" ->
            To("discovering.active", [ctx EXCEPT !.jobId = event.jobId])
      [] event.type = "error.platform.startJob" ->
            To("configured",
               [ctx EXCEPT !.error = StartErrorMessage(event.message)])
      [] event.type = "CANCEL" -> To("configured", ResetJob(ctx))
      [] OTHER -> To("starting", ctx)

\* states.discovering: the transitions of the child state come first, then on
OnDiscovering(s, ctx, event) ==
    CASE event.type = "PAUSE" /\ s = "discovering.active" ->
            To("discovering.paused", ctx)
      [] event.type = "RESUME" /\ s = "discovering.paused" ->
            To("discovering.active", ctx)
      [] event.type = "CANCEL" -> To("configured", ResetJob(ctx))
      [] event.type = "SNAPSHOT" -> To(s, TakeSnapshot(ctx))
      [] event.type = "LEVEL_STARTED" ->
            To(s, [ctx EXCEPT !.currentLevel = event.level,
                              !.levelCounts = Put(@, event.level, 0)])
      [] event.type = "NODE_FOUND" ->
            To(s, [ctx EXCEPT !.graph.nodes = Append(@, event.node),
                              !.levelCounts =
                                  Put(@, event.node.level,
                                      GetOrZero(@, event.node.level) + 1)])
      [] event.type = "EDGE_FOUND" ->
            To(s, [ctx EXCEPT !.graph.edges = Append(@, event.edge)])
      [] event.type = "LEVEL_COMPLETED" ->
            To(s, [ctx EXCEPT !.levelCounts = Put(@, event.level, event.nodeCount),
                              !.progress = Put(@, event.level, 100)])
      [] event.type = "PROGRESS" ->
            To(s, [ctx EXCEPT !.progress = Put(@, event.level, event.progress),
                              !.subAnalysis = event.subAnalysis])
      [] event.type = "DONE" -> To("complete", ctx)
      [] event.type = "ERROR" ->
            To("error", [ctx EXCEPT !.error = event.message])
      [] event.type = "STREAM_DISCONNECTED" ->
            To("error", [ctx EXCEPT !.error =
                             "Stream disconnected: " \o
                             (IF event.reason \in {Undefined, ""}
                              THEN "Unknown reason" ELSE event.reason)])
      [] OTHER -> To(s, ctx)

\* states.complete.on
OnComplete(ctx, event) ==
    CASE event.type = "CONFIGURE" ->
            To("configured", ConfigureAfterJob(ctx, event.config))
      [] event.type = "CANCEL" -> To("configured", ResetJob(ctx))
      [] event.type = "SNAPSHOT" -> To("complete", TakeSnapshot(ctx))
      [] event.type = "RESTORE_SNAPSHOT" ->
            To("configured", RestoreSnapshot(ctx, event.snapshot))
      [] OTHER -> To("complete", ctx)

\* states.error.on
OnError(ctx, event) ==
    CASE event.type = "CONFIGURE" ->
            To("configured", ConfigureAfterJob(ctx, event.config))
      [] event.type = "CANCEL" -> To("configured", ResetJob(ctx))
      [] event.type = "RESTORE_SNAPSHOT" ->
            To("configured", RestoreSnapshot(ctx, event.snapshot))
      [] OTHER -> To("error", ctx)

\* discoveryMachine.transition(state, event): an event the state does not
\* handle leaves the state and the context as they are
Transition(s, ctx, event) ==
    CASE s = "idle" -> OnIdle(ctx, event)
      [] s = "configured" -> OnConfigured(ctx, event)
      [] s = "starting" -> OnStarting(ctx, event)
      [] s \in Discovering -> OnDiscovering(s, ctx, event)
      [] s = "complete" -> OnComplete(ctx, event)
      [] s = "error" -> OnError(ctx, event)

\* inputs of the events
ClientJobIds == {"j1"}
StartFailures == {"Failed to start discovery job: 400"}
StreamErrors == {"E1"}
ClientLevels == {1}
ClientNodes == [id : {"n1"}, level : ClientLevels]
ClientEdges == [id : {"e1"}, source : {"n1"}, target : {"n1"}]
ClientProgress == {50}
ClientSubAnalyses == {[has |-> TRUE, completedItems |-> 1]}

\* service.send(event).  The DELETE request that CANCEL sends in complete
\* goes to the server and is no part of the machine's context.
Send(event) ==
    /\ state' = Transition(state, context, event).state
    /\ context' = Transition(state, context, event).context
    /\ UNCHANGED <<mergeVars, serviceVars, conns, lastReply>>

\* the events of useDiscovery's actions: the page may send them in any state
SendConfigure ==
    /\ state \in MachineStates
    /\ \E c \in ClientConfigs : Send([type |-> "CONFIGURE", config |-> c])

SendStart ==
    /\ state \in MachineStates
    /\ Send([type |-> "START"])

SendPause ==
    /\ state \in MachineStates
    /\ Send([type |-> "PAUSE"])

SendResume ==
    /\ state \in MachineStates
    /\ Send([type |-> "RESUME"])

SendCancel ==
    /\ state \in MachineStates
    /\ Send([type |-> "CANCEL"])

SendSnapshot ==
    /\ Len(context.snapshots) < MaxSnapshots
    /\ Send([type |-> "SNAPSHOT"])

\* the page restores one of context.snapshots (handleRestoreSnapshot)
SendRestoreSnapshot ==
    /\ state \in MachineStates
    /\ \E i \in DOMAIN context.snapshots :
        Send([type |-> "RESTORE_SNAPSHOT", snapshot |-> context.snapshots[i]])

\* startJobService settles while the machine is in starting
StartJobDone ==
    /\ state = "starting"
    /\ \E j \in ClientJobIds : Send([type |-> "done.invoke.startJob", jobId |-> j])

StartJobFailed ==
    /\ state = "starting"
    /\ \E m \in StartFailures :
          Send([type |-> "error.platform.startJob", message |-> m])

\* sseStreamService calls back while the machine is in discovering; once the
\* machine has left it the service is stopped and its events are dropped
\* eventSource.onopen and eventSource.onerror
StreamConnection ==
    /\ state \in Discovering
    /\ \E e \in {[type |-> "STREAM_CONNECTED", reason |-> Undefined],
                 [type |-> "STREAM_DISCONNECTED", reason |-> "Connection error"]} :
          Send(e)

StreamLevelStarted ==
    /\ state \in Discovering
    /\ \E l \in ClientLevels : Send([type |-> "LEVEL_STARTED", level |-> l])

StreamNodeFound ==
    /\ state \in Discovering
    /\ Len(context.graph.nodes) < MaxClientNodes
    /\ \E n \in ClientNodes : Send([type |-> "NODE_FOUND", node |-> n])

StreamEdgeFound ==
    /\ state \in Discovering
    /\ Len(context.graph.edges) < MaxClientEdges
    /\ \E e \in ClientEdges : Send([type |-> "EDGE_FOUND", edge |-> e])

StreamLevelCompleted ==
    /\ state \in Discovering
    /\ \E l \in ClientLevels, n \in {MaxClientNodes} :
          Send([type |-> "LEVEL_COMPLETED", level |-> l, nodeCount |-> n])

StreamProgress ==
    /\ state \in Discovering
    /\ \E l \in ClientLevels, p \in ClientProgress, sub \in ClientSubAnalyses :
          Send([type |-> "PROGRESS", level |-> l, progress |-> p,
                subAnalysis |-> sub])

StreamDone ==
    /\ state \in Discovering
    /\ Send([type |-> "DONE"])

StreamError ==
    /\ state \in Discovering
    /\ \E m \in StreamErrors : Send([type |-> "ERROR", message |-> m])

\* the machine as interpret(discoveryMachine).start() leaves it
InitClient ==
    /\ state = "idle"
    /\ context = initialContext

NextMachine ==
    \/ SendConfigure
    \/ SendStart
    \/ SendPause
    \/ SendResume
    \/ SendCancel
    \/ SendSnapshot
    \/ SendRestoreSnapshot
    \/ StartJobDone
    \/ StartJobFailed
    \/ StreamConnection
    \/ StreamLevelStarted
    \/ StreamNodeFound
    \/ StreamEdgeFound
    \/ StreamLevelCompleted
    \/ StreamProgress
    \/ StreamDone
    \/ StreamError

(***************************************************************************)
(* Specifications                                                          *)
(***************************************************************************)
InitStream == conns = <<>>

InitRoutes == lastReply = NoReply

InitMergeIdle ==
    /\ mergePc = "idle"
    /\ mergeIn = <<>>
    /\ mergeOut = CombineResults(<<>>)
    /\ regIn = <<>>
    /\ regOut = NotCalled

\* the service as its callers may drive it (DiscoveryService interface)
Init == InitService /\ InitStream /\ InitRoutes /\ InitClient /\ InitMergeIdle

Next ==
    \/ StartDiscovery
    \/ SimulateDiscovery
    \/ CancelJob
    \/ \E t \in TaskSlots : TaskNext(t)

Spec == Init /\ [][Next]_vars

\* the service behind the HTTP routes (which never call simulateDiscovery),
\* with stream connections
NextStream ==
    \/ StartDiscovery
    \/ CancelJob
    \/ \E t \in TaskSlots : TaskNext(t)
    \/ Connect
    \/ Tick
    \/ Disconnect

SpecStream == Init /\ [][NextStream]_vars

\* the start route and the tasks it starts
NextStart ==
    \/ PostDiscover
    \/ \E t \in TaskSlots : TaskNext(t)

SpecStart == Init /\ [][NextStart]_vars

(***************************************************************************)
(* Two jobs at once: two start requests with the same body, the two tasks  *)
(* they start, and cancel requests for either job.                         *)
(***************************************************************************)
PairIds == {"j1", "j2"}         \* two values of crypto.randomUUID()

PairSlots == 1..Cardinality(PairIds)

PairConfig ==
    [niche |-> Niche, maxLevels |-> MaxLevelsBound, maxNodesPerLevel |-> MaxNodesBound,
     sources |-> <<"reddit">>]

\* POST /api/discover with a valid body
PostDiscoverPair ==
    /\ running = 0
    /\ \E j \in PairIds \ DOMAIN jobs :
          /\ StartJob(j, PairConfig)
          /\ lastReply' = [status |-> 200, body |-> PairConfig, jobId |-> j]
    /\ UNCHANGED <<mergeVars, clientVars, conns>>

\* DELETE /api/discover/:jobId
CancelPair ==
    /\ running = 0
    /\ \E j \in PairIds : CancelJobOf(j)
    /\ UNCHANGED <<otherVars, jobGraphs, activeJobs, tasks, running>>

NextPair ==
    \/ PostDiscoverPair
    \/ CancelPair
    \/ \E t \in PairSlots : TaskNext(t)

SpecPair == Init /\ [][NextPair]_vars

(***************************************************************************)
(* One job whose configuration allows a level more than the other          *)
(* specifications do, so that a level can come out empty with levels left. *)
(***************************************************************************)
LevelsConfig ==
    [niche |-> Niche, maxLevels |-> MaxLevelsBound + 1,
     maxNodesPerLevel |-> MaxNodesBound, sources |-> <<"reddit">>]

\* startDiscovery(config)
StartLevels ==
    /\ running = 0
    /\ \E j \in JobIds \ DOMAIN jobs : StartJob(j, LevelsConfig)
    /\ UNCHANGED otherVars

NextLevels ==
    \/ StartLevels
    \/ \E t \in TaskSlots : TaskNext(t)

SpecLevels == Init /\ [][NextLevels]_vars

(***************************************************************************)
(* One job that may have more parents at a level than maxNodesPerLevel:    *)
(* one node per level is asked for, three levels, and a parent may get one *)
(* topic more than elsewhere.  The job can be cancelled.                   *)
(***************************************************************************)
ParentsConfig ==
    [niche |-> Niche, maxLevels |-> MaxLevelsBound + 1,
     maxNodesPerLevel |-> 1, sources |-> <<"reddit">>]

\* startDiscovery(config)
StartParents ==
    /\ running = 0
    /\ \E j \in JobIds \ DOMAIN jobs : StartJob(j, ParentsConfig)
    /\ UNCHANGED otherVars

NextParents ==
    \/ StartParents
    \/ CancelJob
    \/ \E t \in TaskSlots : TaskNext(t) \/ TopicsReturnMany(t)

SpecParents == Init /\ [][NextParents]_vars

\* one job whose sources name the Reddit analyzer twice: two calls of
\* analyze run in parallel for it
ParallelConfig ==
    [niche |-> Niche, maxLevels |-> MaxLevelsBound, maxNodesPerLevel |-> 1,
     sources |-> <<"reddit", "reddit">>]

StartParallel ==
    /\ running = 0
    /\ jobs = <<>>
    /\ \E j \in JobIds : StartJob(j, ParallelConfig)
    /\ UNCHANGED otherVars

AnalyzerNext(t) ==
    \/ SetDiscovering(t) \/ InvokeAnalyzers(t)
    \/ SearchFails(t) \/ SearchReturns(t)
    \/ Cb164(t) \/ Cb498(t) \/ LlmReturns(t) \/ LlmReturnsOther(t) \/ Cb524(t)
    \/ Cb192(t) \/ Cb211(t) \/ Cb233(t) \/ TopicsReturn(t)
    \/ Cb300(t) \/ AnalyzerReturns(t) \/ AnalyzerThrows(t) \/ AllSettled(t)
    \/ StoreResults(t) \/ SetComplete(t) \/ CatchRun(t) \/ CatchStart(t)
    \/ Finally(t)

NextParallel ==
    \/ StartParallel
    \/ \E t \in TaskSlots : AnalyzerNext(t)

SpecParallel == Init /\ [][NextParallel]_vars

\* the steps of a task that need no network answer
TaskRuns(t) ==
    \/ SetDiscovering(t) \/ GetAnalyzers(t)
    \/ Cb105(t) \/ Cb141(t) \/ Cb164(t) \/ Cb498(t) \/ Cb524(t)
    \/ Cb192(t) \/ Cb211(t) \/ Cb233(t) \/ Cb300(t) \/ Cb312(t) \/ Cb344(t)
    \/ RegistryCatch(t) \/ StoreResults(t) \/ SetComplete(t) \/ CatchRun(t)
    \/ CatchStart(t) \/ Finally(t)

\* the event loop runs what is runnable: the continuation of a task that
\* holds it, and the poll timers.  Nothing in the code makes a pending
\* request to Reddit or to the LLM answer (no timeout is set, and the
\* AbortController of the job is not handed to fetch).
SpecStreamFair ==
    /\ SpecStream
    /\ WF_vars(\E t \in TaskSlots : TaskRuns(t))
    /\ WF_vars(Tick)

\* the answers of Reddit and of the LLM that a task waits for: a search
\* fails or returns, the LLM and the topic extraction return
TaskAnswers(t) ==
    \/ SearchFails(t) \/ SearchReturns(t) \/ LlmReturns(t)
    \/ TopicsReturn(t) \/ TopicsReturnMany(t)

\* SpecParents when every call to Reddit and to the LLM returns or fails: the
\* event loop runs the continuation of a task once its answer is there.  The
\* weak fairness of Cb312 is written with its enabling condition,
\* Runs(t, "cb312"), in the place of ENABLED.
SpecParentsAnswered ==
    /\ SpecParents
    /\ WF_vars(\E t \in TaskSlots :
                  t \in TaskIds /\ tasks[t].pc # "cb312" /\ TaskRuns(t))
    /\ \A t \in TaskSlots : []<>(~Runs(t, "cb312")) \/ []<><<Cb312(t)>>_vars
    /\ WF_vars(\E t \in TaskSlots : TaskAnswers(t))

(***************************************************************************)
(* The stream of a finished job whose graph is as deep as an accepted      *)
(* configuration allows: the job is taken after its task has finished, the *)
(* graph is the one the task stores for a chain root - sub-niche - topic - *)
(* topic ... of the given depth.                                           *)
(***************************************************************************)

\* the nodes analyze has collected for a chain of the given depth
RECURSIVE ChainNodes(_)
ChainNodes(depth) ==
    IF depth = 0 THEN <<RootNode("reddit", Niche)>>
    ELSE IF depth = 1
    THEN ChainNodes(0) \o <<SubNicheNode("reddit", 1, 0, SubredditName(0), 60,
                                         SomeData([subscribers |-> 1000]))>>
    ELSE LET above == ChainNodes(depth - 1)
         IN  above \o <<TopicNode("reddit", depth, above[depth], 0, <<"t">>)>>

\* ... and the edges
ChainEdges(depth) ==
    LET nodes == ChainNodes(depth)
    IN  [i \in 1..depth |->
            IF i = 1 THEN ContainsEdge("reddit", "root", nodes[1], nodes[2], 80)
            ELSE ContainsEdge("reddit", nodes[i].id, nodes[i], nodes[i + 1], 70)]

\* the graph storeAnalyzerResults leaves for the chain
ChainGraph(depth) ==
    LET result == CombineResults(<<[nodes |-> ChainNodes(depth),
                                    edges |-> ChainEdges(depth),
                                    metadata |-> [platform |-> "reddit",
                                                  apiCalls |-> depth + 1,
                                                  errors |-> <<>>]]>>)
    IN  [nodes |-> [i \in 1..Len(result.nodes) |-> DiscoveryNodeOf(result.nodes[i])],
         edges |-> [i \in 1..Len(result.edges) |-> DiscoveryEdgeOf(result.edges[i])]]

DeepConfig ==
    [niche |-> Niche, maxLevels |-> MaxLevelsAccepted, maxNodesPerLevel |-> 1,
     sources |-> <<"reddit">>]

\* the job record once the task has stored the chain and set 'complete'
ChainJob(depth) ==
    [NewJob(DeepConfig) EXCEPT
        !.status = "complete",
        !.currentLevel = MaxLevelsAccepted,
        !.totalNodes = depth + 1,
        !.totalEdges = depth,
        !.subAnalysis =
            IF depth = 0 THEN Sub(0, 0, <<"p">>, "fetching", 0)
            ELSE Sub(1, 0,
                     ChainNodes(depth)[IF depth < MaxLevelsAccepted
                                       THEN depth + 1 ELSE depth].label,
                     "llm_analysis", 25)]

\* a connection opened while the job was discovering, before any tick
PollingConn(j) ==
    [job |-> j, log |-> <<Event("connected", [jobId |-> j, status |-> "discovering"])>>,
     dropped |-> <<>>, ended |-> FALSE, polling |-> TRUE, ticks |-> 0,
     maxLevels |-> MaxLevelsAccepted, connectedAt |-> "discovering"]

InitDeep ==
    /\ InitMergeIdle
    /\ InitRoutes /\ InitClient
    /\ \E j \in JobIds, depth \in 0..MaxLevelsAccepted :
          /\ jobs = [i \in {j} |-> ChainJob(depth)]
          /\ jobGraphs = [i \in {j} |-> ChainGraph(depth)]
          /\ tasks = <<Unwind(NewTask(j, "start", DeepConfig), "done", NoErr)>>
          /\ conns \in {<<>>, <<PollingConn(j)>>}
    /\ cancelledJobs = {}
    /\ activeJobs = {}
    /\ running = 0
    /\ lastCancel = NoCancel

NextDeep == Connect \/ Tick \/ Disconnect

SpecDeep == InitDeep /\ [][NextDeep]_vars

\* results whose nodes vary in label, level, confidence and popularity
NodeFamily(results) ==
    \E all \in SeqsUpTo(NodeShapes, MaxMergeNodes) :
        \E k \in 0..Len(all) :
            results \in SplitResults(all, k, <<>>, <<>>)

\* results whose nodes vary in label and level and that hold edges between
\* the ids of the analyzer's own nodes
EdgeFamily(results) ==
    \E all \in SeqsUpTo(PlainShapes, MaxMergeNodes) :
        \E k \in 0..Len(all) :
            \E e1 \in SeqsUpTo(EdgeShapes(SubSeq(all, 1, k)), MaxMergeEdges) :
                \E e2 \in SeqsUpTo(EdgeShapes(SubSeq(all, k + 1, Len(all))),
                                    MaxMergeEdges - Len(e1)) :
                    /\ Len(e1) + Len(e2) > 0
                    /\ results \in SplitResults(all, k, e1, e2)

\* the data maps analyzers attach to a node: none, or one with a key that
\* another analyzer sets too (to the same or another value) or with its own key
MergeData ==
    {NoData, SomeData([subscribers |-> 1000]), SomeData([subscribers |-> 2000]),
     SomeData([followers |-> 10])}

DataShapes == [label : {<<"A", "i">>, <<"a", "i", " ">>}, level : {1},
               confidence : MergeConfidences, popularity : {100}, data : MergeData]

MkDataResult(platform, shapes) ==
    [MkResult(platform, shapes, <<>>) EXCEPT
        !.nodes = [i \in 1..Len(shapes) |-> [@[i] EXCEPT !.data = shapes[i].data]]]

\* results whose nodes are duplicates of one concept and vary in confidence
\* and in the data map they carry
DataFamily(results) ==
    \E all \in SeqsUpTo(DataShapes, MaxMergeNodes) :
        \E k \in 0..Len(all) :
            /\ all # <<>>
            /\ results = <<MkDataResult(Platforms[1], SubSeq(all, 1, k)),
                           MkDataResult(Platforms[2], SubSeq(all, k + 1, Len(all)))>>

\* what an analyzer returns for one level of sub-niches, built as
\* RedditAnalyzer.analyze builds it: the root, one node per label with the
\* ids 'node-1-0', 'node-1-1', ..., and an edge from the root to each
AnalyzerOutput(platform, labels, confidence) ==
    LET root  == MkNode(platform, 0, [label |-> <<"b">>, level |-> 0,
                                      confidence |-> 80, popularity |-> 100])
        child == [i \in 1..Len(labels) |->
                     MkNode(platform, i - 1, [label |-> labels[i], level |-> 1,
                                              confidence |-> 80, popularity |-> 100])]
    IN  [nodes |-> <<root>> \o child,
         edges |-> [i \in 1..Len(labels) |->
                       MkEdge(platform, [source |-> root.id, target |-> child[i].id,
                                         confidence |-> confidence])],
         metadata |-> [platform |-> platform, apiCalls |-> 1, errors |-> <<>>]]

AnalyzerOutputs(platform) ==
    {AnalyzerOutput(platform, labels, confidence) :
        labels \in SeqsUpTo(MergeLabels, MaxSubNiches), confidence \in EdgeConfidences}

\* the results of one analyzer or of two
AnalyzedFamily(results) ==
    \/ \E a \in AnalyzerOutputs(Platforms[1]) : results = <<a>>
    \/ \E a \in AnalyzerOutputs(Platforms[1]), b \in AnalyzerOutputs(Platforms[2]) :
          results = <<a, b>>

InitMerge ==
    /\ InitService
    /\ InitStream
    /\ InitRoutes /\ InitClient
    /\ mergePc = "input"
    /\ mergeOut = CombineResults(<<>>)
    /\ regIn = <<>>
    /\ regOut = NotCalled
    /\ \/ NodeFamily(mergeIn)
       \/ EdgeFamily(mergeIn)
       \/ DataFamily(mergeIn)
       \/ AnalyzedFamily(mergeIn)

\* one call of combineResults(results, startTime)
CombineStep ==
    /\ mergePc = "input"
    /\ mergePc' = "combined"
    /\ mergeOut' = CombineResults(mergeIn)
    /\ UNCHANGED <<mergeIn, regIn, regOut, serviceVars, clientVars, conns, lastReply>>

NextMerge == CombineStep

SpecMerge == InitMerge /\ [][NextMerge]_vars

\* one call of analyzeWithMultiplePlatforms on requests of every kind
InitRegistry ==
    /\ InitService
    /\ InitStream
    /\ InitRoutes /\ InitClient
    /\ mergePc = "idle"
    /\ mergeIn = <<>>
    /\ mergeOut = CombineResults(<<>>)
    /\ regIn \in SeqsUpTo(Requests, MaxPlatforms)
    /\ regOut = NotCalled

AnalyzeStep ==
    /\ ~regOut.called
    /\ \E order \in Orders(Len(SelectSeq(Invoked(regIn), LAMBDA r : ~r.ok))) :
          regOut' = AnalyzeWithMultiplePlatforms(regIn, order)
    /\ IF regOut'.thrown
       THEN UNCHANGED <<mergePc, mergeIn, mergeOut>>
       ELSE /\ mergePc' = "combined"
            /\ mergeIn' = SeqMap(LAMBDA r : r.result,
                                 SelectSeq(Invoked(regIn), LAMBDA r : r.ok))
            /\ mergeOut' = regOut'.result
    /\ UNCHANGED <<regIn, serviceVars, clientVars, conns, lastReply>>

NextRegistry == AnalyzeStep

SpecRegistry == InitRegistry /\ [][NextRegistry]_vars

\* the client's machine, driven by the page, startJobService and the stream
SpecMachine == Init /\ [][NextMachine]_vars

(***************************************************************************)
(* Properties of the merge                                                 *)
(***************************************************************************)
\* the identity of a node: (lowercase(trim(label)), level)
IdentityKey(node) == <<ToLowerCase(Trim(node.label)), node.level>>

AllInputNodes == Flatten(SeqMap(LAMBDA r : r.nodes, mergeIn))

\* the input nodes, in input order, that share the identity of node
Duplicates(node) == SelectSeq(AllInputNodes, LAMBDA x : IdentityKey(x) = IdentityKey(node))

MaxConfidence(nodes) ==
    CHOOSE c \in {nodes[i].confidence : i \in 1..Len(nodes)} :
        \A i \in 1..Len(nodes) : nodes[i].confidence <= c

\* C5: every edge of the merged output has a source and a target that are
\* ids of nodes of the merged output.
C5_MergedEdgesHaveEndpoints ==
    mergePc = "combined" =>
        \A i \in 1..Len(mergeOut.edges) :
            /\ mergeOut.edges[i].source \in NodeIds(mergeOut.nodes)
            /\ mergeOut.edges[i].target \in NodeIds(mergeOut.nodes)

\* C6: no two nodes of the merged output have the same pair
\* (lowercase(trim(label)), level).
C6_MergedKeysDistinct ==
    mergePc = "combined" =>
        \A i, j \in 1..Len(mergeOut.nodes) :
            i # j => IdentityKey(mergeOut.nodes[i]) # IdentityKey(mergeOut.nodes[j])

\* two analyzers returned the same concept under labels that differ in case
\* and blanks, and the merge has run
C6_Witness ==
    /\ mergePc = "combined"
    /\ Len(mergeIn) = 2
    /\ \E i \in 1..Len(mergeIn[1].nodes), j \in 1..Len(mergeIn[2].nodes) :
          /\ mergeIn[1].nodes[i].label # mergeIn[2].nodes[j].label
          /\ IdentityKey(mergeIn[1].nodes[i]) = IdentityKey(mergeIn[2].nodes[j])
    /\ Len(mergeOut.nodes) = 1

\* C7: the popularity of every merged node is the sum of the popularities of
\* all input nodes that share its identity key.
C7_MergedPopularityIsSum ==
    mergePc = "combined" =>
        \A i \in 1..Len(mergeOut.nodes) :
            mergeOut.nodes[i].popularity =
                SumSeq(SeqMap(LAMBDA x : x.popularity, Duplicates(mergeOut.nodes[i])))

\* a later duplicate of another analyzer with the higher confidence was merged
C7_Witness ==
    /\ mergePc = "combined"
    /\ \E i \in 1..Len(mergeOut.nodes) :
          LET d == Duplicates(mergeOut.nodes[i])
          IN  /\ Len(d) = 2
              /\ d[1].source # d[2].source
              /\ d[2].confidence > d[1].confidence
              /\ d[1].popularity = 100 /\ d[2].popularity = 50
              /\ mergeOut.nodes[i].popularity = 150

\* C8: the confidence of every merged node is the maximum confidence of its
\* duplicates and its source is that of the earliest duplicate attaining it;
\* duplicates 0.9/100 and 0.6/50 give 0.9 and 150 in either order.
C8_MergedConfidenceIsMax ==
    mergePc = "combined" =>
        \A i \in 1..Len(mergeOut.nodes) :
            LET d     == Duplicates(mergeOut.nodes[i])
                m     == MaxConfidence(d)
                first == CHOOSE k \in 1..Len(d) :
                             /\ d[k].confidence = m
                             /\ \A l \in 1..(k - 1) : d[l].confidence < m
            IN  /\ mergeOut.nodes[i].confidence = m
                /\ mergeOut.nodes[i].source = d[first].source
                /\ ( /\ Len(d) = 2
                     /\ {<<d[1].confidence, d[1].popularity>>,
                         <<d[2].confidence, d[2].popularity>>} = {<<90, 100>>, <<60, 50>>} )
                   => /\ mergeOut.nodes[i].confidence = 90
                      /\ mergeOut.nodes[i].popularity = 150

\* the 0.6/50 duplicate came first and the 0.9/100 duplicate of the other
\* analyzer replaced confidence and source
C8_Witness ==
    /\ mergePc = "combined"
    /\ Len(mergeOut.nodes) = 1
    /\ LET d == Duplicates(mergeOut.nodes[1])
       IN  /\ Len(d) = 2
           /\ d[1].confidence = 60 /\ d[1].popularity = 50 /\ d[1].source = "reddit"
           /\ d[2].confidence = 90 /\ d[2].popularity = 100 /\ d[2].source = "twitter"
    /\ mergeOut.nodes[1].confidence = 90
    /\ mergeOut.nodes[1].source = "twitter"
    /\ mergeOut.nodes[1].popularity = 150

(***************************************************************************)
(* Properties of the job lifecycle                                         *)
(***************************************************************************)
IsPrefix(s, t) == Len(s) <= Len(t) /\ SubSeq(t, 1, Len(s)) = s

\* the status changes the lifecycle starting -> discovering -> terminal has
ForwardTransitions ==
    ({"starting"} \X ({"discovering"} \cup TerminalStatus))
        \cup ({"discovering"} \X TerminalStatus)

\* C1: a job's stored status changes only forward along starting ->
\* discovering -> {complete, error, cancelled}; a terminal status, once
\* stored, is never replaced by another value by any step of the expansion
\* task, of cancelJob or of simulateDiscovery.
C1_StatusOnlyForward ==
    [][\A j \in DOMAIN jobs :
          jobs'[j].status # jobs[j].status
              => <<jobs[j].status, jobs'[j].status>> \in ForwardTransitions]_vars

\* C2: after cancelJob has answered success for a job whose expansion task
\* was still running, the job's status is never error, and it is cancelled
\* once the task has finished.
C2_CancelledNeverError ==
    \A j \in DOMAIN jobs :
        (lastCancel.job = j /\ lastCancel.success
            /\ lastCancel.before \notin TerminalStatus)
        => /\ jobs[j].status # "error"
           /\ (\A t \in TaskIds : tasks[t].job = j => tasks[t].pc = "done")
                 => jobs[j].status = "cancelled"

\* C3: a cancelJob call that finds the job's stored status complete, error
\* or cancelled answers success=false and changes neither the job record
\* nor the graph.
C3_CancelOfTerminalIsNoOp ==
    [][(lastCancel' # lastCancel /\ lastCancel'.before \in TerminalStatus)
          => /\ ~lastCancel'.success
             /\ jobs' = jobs
             /\ jobGraphs' = jobGraphs]_vars

\* C4: stored nodes and edges are never removed or replaced (the lists only
\* grow at the end), and while a job's status is terminal no node or edge is
\* added and currentLevel, subAnalysis, totalNodes and totalEdges keep
\* their values.
C4_GraphAppendOnlyAndFrozen ==
    [][\A j \in DOMAIN jobs :
          /\ IsPrefix(jobGraphs[j].nodes, jobGraphs'[j].nodes)
          /\ IsPrefix(jobGraphs[j].edges, jobGraphs'[j].edges)
          /\ jobs[j].status \in TerminalStatus
                => /\ jobGraphs'[j] = jobGraphs[j]
                   /\ jobs'[j].currentLevel = jobs[j].currentLevel
                   /\ jobs'[j].subAnalysis = jobs[j].subAnalysis
                   /\ jobs'[j].totalNodes = jobs[j].totalNodes
                   /\ jobs'[j].totalEdges = jobs[j].totalEdges]_vars

(***************************************************************************)
(* Properties of the stream                                                *)
(***************************************************************************)
ReplayEvents == {"level_started", "node_found", "level_completed", "edge_found", "done"}

\* what a connection was sent, leaving out connected and progress events
Replayed(c) == SelectSeq(conns[c].log, LAMBDA e : e.event \in ReplayEvents)

\* the connection was sent a completed-replay
GotReplay(c) == \E i \in 1..Len(conns[c].log) : conns[c].log[i].event = "done"

\* C9: two clients of the same completed job are sent the same sequence of
\* level_started, node_found, level_completed, edge_found and done events,
\* whether they connected while the job was running or after it completed.
C9_ReplayIndependentOfConnectTime ==
    \A c, d \in DOMAIN conns :
        (conns[c].job = conns[d].job /\ GotReplay(c) /\ GotReplay(d))
            => Replayed(c) = Replayed(d)

Positions(r, type) == {i \in 1..Len(r) : r[i].event = type}

\* C10: in every completed-replay each level L of the graph has a
\* level_started(L), then one node_found per stored node of level L in
\* storage order, then level_completed(L) with nodeCount the number of those
\* nodes; the edge_found events are the stored edges in storage order, all
\* after the last level_completed; one done ends the replay with totalNodes
\* and totalEdges the numbers of node_found and edge_found events; and the
\* stream is closed.
C10_ReplayStructure ==
    \A c \in DOMAIN conns :
        GotReplay(c) =>
            LET r     == Replayed(c)
                graph == jobGraphs[conns[c].job]
            IN  /\ \A level \in {graph.nodes[i].level : i \in 1..Len(graph.nodes)} :
                      \E i \in Positions(r, "level_started") :
                          LET nodes == NodesOfLevel(graph, level)
                              k     == i + Len(nodes) + 1
                          IN  /\ r[i].data.level = level
                              /\ k <= Len(r)
                              /\ \A n \in 1..Len(nodes) :
                                    r[i + n] = Event("node_found", [node |-> nodes[n]])
                              /\ r[k].event = "level_completed"
                              /\ r[k].data.level = level
                              /\ r[k].data.nodeCount = Len(nodes)
                /\ SelectSeq(r, LAMBDA e : e.event = "edge_found") = EdgeEvents(graph)
                /\ \A i \in Positions(r, "edge_found") :
                      \A k \in Positions(r, "level_completed") : k < i
                /\ Positions(r, "done") = {Len(r)}
                /\ r[Len(r)].data.totalNodes = Cardinality(Positions(r, "node_found"))
                /\ r[Len(r)].data.totalEdges = Cardinality(Positions(r, "edge_found"))
                /\ conns[c].ended

FirstPosition(r, type, level) ==
    CHOOSE i \in 1..Len(r) :
        /\ r[i].event = type /\ r[i].data.level = level
        /\ \A k \in 1..(i - 1) : ~(r[k].event = type /\ r[k].data.level = level)

\* C11: in every completed-replay the levels come in ascending numeric
\* order: for levels a < b of the graph, level_started(a) is written and is
\* written before level_started(b).
C11_LevelsAscending ==
    \A c \in DOMAIN conns :
        GotReplay(c) =>
            LET r      == Replayed(c)
                graph  == jobGraphs[conns[c].job]
                levels == {graph.nodes[i].level : i \in 1..Len(graph.nodes)}
                started(level) ==
                    \E i \in 1..Len(r) :
                        r[i].event = "level_started" /\ r[i].data.level = level
            IN  /\ \A a \in levels : started(a)
                /\ \A a, b \in levels :
                      a < b => FirstPosition(r, "level_started", a)
                                  < FirstPosition(r, "level_started", b)

\* every write of the handler on the connection, in order (once the reply
\* is ended it stays ended, so the dropped writes follow the delivered ones)
Attempted(c) == conns[c].log \o conns[c].dropped

TerminalEvents == {"done", "error"}

HasEvent(c, type) == \E i \in 1..Len(Attempted(c)) : Attempted(c)[i].event = type

\* a connection whose job is cancelled: at connection time, or while it polls
OnCancelledJob(c) ==
    /\ c \in DOMAIN conns
    /\ conns[c].polling
    /\ jobs[conns[c].job].status = "cancelled"

\* C13: a connection to a job that is cancelled when the client connects,
\* or becomes cancelled while the connection polls, eventually writes an
\* error event and stops polling.
C13_CancelledStreamEnds ==
    \A c \in 1..MaxConns :
        OnCancelledJob(c)
            ~> (c \in DOMAIN conns /\ ~conns[c].polling /\ HasEvent(c, "error"))

C15_NoWriteAfterDisconnect ==
    \A c \in DOMAIN conns :
        /\ conns[c].ended => ~conns[c].polling
        /\ conns[c].dropped = <<>>

\* C16: a step of a stream connection (connect, poll tick with its replay or
\* error event, a write on an ended reply, client disconnect) leaves the job
\* records, the graphs, the cancellation set and the active-job map as they
\* are; and no step at all removes a job record, so the job stays readable.
C16_StreamStepsLeaveJobsAlone ==
    [][/\ conns' # conns =>
            UNCHANGED <<jobs, jobGraphs, cancelledJobs, activeJobs>>
       /\ DOMAIN jobs \subseteq DOMAIN jobs']_vars

\* a stream whose client has gone was still written to, and its job completed
C16_Witness ==
    \E c \in DOMAIN conns :
        /\ conns[c].dropped # <<>>
        /\ conns[c].job \in DOMAIN jobs
        /\ jobs[conns[c].job].status = "complete"
        /\ Len(GetJobGraph(conns[c].job).nodes) > 0

Malformed(body) ==
    \/ Len(body.niche) = 0
    \/ body.maxLevels <= 0
    \/ body.maxNodesPerLevel <= 0
    \/ Len(body.sources) = 0

\* C18: a start request with a malformed body is answered 400, and the step
\* that answers it creates no job record, no graph, no active-job entry and
\* no task; a request answered 200 was not malformed.
C18_MalformedStartRejected ==
    [][lastReply' # lastReply =>
          /\ Malformed(lastReply'.body) =>
                /\ lastReply'.status = 400
                /\ UNCHANGED <<jobs, jobGraphs, activeJobs, cancelledJobs, tasks, running>>
          /\ lastReply'.status = 200 =>
                /\ ~Malformed(lastReply'.body)
                /\ lastReply'.jobId \in DOMAIN jobs' \ DOMAIN jobs]_vars

\* a malformed request was rejected while an earlier, well-formed one has
\* its job running
C18_Witness ==
    /\ lastReply.status = 400
    /\ Malformed(lastReply.body)
    /\ lastReply.body.maxLevels = 0
    /\ \E j \in DOMAIN jobs : jobs[j].status = "discovering"

\* all that the service and the repository hold of job j
JobView(j) == <<jobs[j], jobGraphs[j], j \in cancelledJobs, j \in activeJobs>>

\* the step leaves every job but j as it is
OthersUntouched(j) ==
    \A k \in DOMAIN jobs \ {j} : k \in DOMAIN jobs' /\ JobView(k)' = JobView(k)

\* C19: two jobs started with the same body have different ids, each born
\* with status starting and answered with its own id; and a step of one
\* job's task (its progress callbacks included), a cancel of one job, or the
\* start of one job leaves the other job's record (status, currentLevel,
\* subAnalysis, totals), cancellation state, active entry and graph unchanged.
\* A task meets the AbortError only while its own job is cancelled.
C19_JobsIsolated ==
    /\ [](\A t, u \in DOMAIN tasks :
             /\ t # u => tasks[t].job # tasks[u].job
             /\ tasks[t].err = AbortErr => tasks[t].job \in cancelledJobs)
    /\ [][/\ \A t \in DOMAIN tasks : TaskNext(t) => OthersUntouched(tasks[t].job)
          /\ \A j \in PairIds : (running = 0 /\ CancelJobOf(j)) => OthersUntouched(j)
          /\ \A j \in DOMAIN jobs' \ DOMAIN jobs :
                /\ OthersUntouched(j)
                /\ jobs'[j].status = "starting"
                /\ jobGraphs'[j] = NewGraph
                /\ lastReply' = [status |-> 200, body |-> PairConfig, jobId |-> j]]_vars

\* both jobs ran at once; one was cancelled and failed, the other completed
C19_Witness ==
    /\ DOMAIN jobs = PairIds
    /\ \E j, k \in PairIds :
          /\ jobs[j].status = "complete"
          /\ Len(jobGraphs[j].nodes) > 1
          /\ jobs[k].status = "error"
          /\ jobGraphs[k] = NewGraph
          /\ lastCancel = [job |-> k, success |-> TRUE, before |-> "discovering"]

\* task t is told that the expansion of the parent at hand gave nothing
ExpansionFails(t) ==
    /\ TopicsReturn(t)
    /\ tasks'[t].apiCalls = tasks[t].apiCalls + 1
    /\ tasks'[t].levelNodes = tasks[t].levelNodes

\* C20: when the expansion of a parent at a level >= 2 gives nothing, the
\* parent adds no node and no edge, the children found so far at the level
\* and the nodes of the levels above are kept, no error is raised, and the
\* loop goes on with the next parent of the level if there is one (only
\* after the last parent does the level end); as long as a task works at a
\* level >= 2 it meets no error and its job is not set to error.
C20_ParentFailureIsolated ==
    [][\A t \in DOMAIN tasks :
          /\ ExpansionFails(t) =>
                /\ tasks[t].level >= 2
                /\ tasks'[t].levelEdges = tasks[t].levelEdges
                /\ tasks'[t].allNodes = tasks[t].allNodes
                /\ tasks'[t].allEdges = tasks[t].allEdges
                /\ tasks'[t].level = tasks[t].level
                /\ tasks'[t].err = NoErr
                /\ IF tasks[t].index + 1 < Len(ParentNodes(tasks[t]))
                   THEN tasks'[t].pc = "cb233" /\ tasks'[t].index = tasks[t].index + 1
                   ELSE tasks'[t].pc = "cb300"
          /\ tasks[t].level >= 2 =>
                /\ tasks'[t].err = NoErr
                /\ jobs'[tasks[t].job].status # "error"]_vars

\* a job is complete; the first sub-niche of its graph has no child, the
\* second one has a topic
C20_Witness ==
    \E j \in DOMAIN jobs :
        LET graph == GetJobGraph(j)
            HasChild(n) == \E i \in 1..Len(graph.edges) :
                               graph.edges[i].source = graph.nodes[n].id
        IN  /\ jobs[j].status = "complete"
            /\ \E m, n \in 1..Len(graph.nodes) :
                  /\ m < n
                  /\ graph.nodes[m].level = 1 /\ ~HasChild(m)
                  /\ graph.nodes[n].level = 1 /\ HasChild(n)

\* the levels of the nodes in a list of nodes
LevelsOf(nodes) == {nodes[i].level : i \in 1..Len(nodes)}

\* C21: when a level ends with no new node, the level loop is left at once,
\* whatever number of levels is still allowed; from there the task only
\* returns its result, stores it and sets the job to complete, with no error
\* on the way. An expansion call is in flight at level L only if every level
\* below L has nodes, and the levels of a stored graph are 0..m without a gap.
C21_EmptyLevelEndsLoop ==
    /\ [](\A t \in DOMAIN tasks :
             /\ tasks[t].pc = "topics" =>
                   \A l \in 0..(tasks[t].level - 1) : l \in LevelsOf(tasks[t].allNodes)
             /\ \A l \in LevelsOf(GetJobGraph(tasks[t].job).nodes) :
                   /\ l <= tasks[t].config.maxLevels
                   /\ l > 0 /\ tasks[t].pc \in {"finally", "done"}
                        => (l - 1) \in LevelsOf(GetJobGraph(tasks[t].job).nodes))
    /\ [][\A t \in DOMAIN tasks :
             tasks'[t] # tasks[t] =>
                /\ (tasks[t].pc = "cb300" /\ tasks[t].levelNodes = <<>>)
                      => tasks'[t].pc = "cb312" /\ tasks'[t].err = NoErr
                /\ tasks[t].pc = "cb312"
                      => tasks'[t].pc = "store" /\ tasks'[t].err = NoErr
                /\ tasks[t].pc = "store"
                      => tasks'[t].pc \in {"store", "setComplete"} /\ tasks'[t].err = NoErr
                /\ tasks[t].pc = "setComplete"
                      => /\ jobs'[tasks[t].job].status = "complete"
                         /\ jobs'[tasks[t].job].error = Undefined]_vars

\* a job allowed three levels is complete with sub-niches and no topic
C21_Witness ==
    \E t \in DOMAIN tasks :
        LET j == tasks[t].job
        IN  /\ tasks[t].pc = "done"
            /\ jobs[j].status = "complete"
            /\ jobs[j].config.maxLevels > 2
            /\ LevelsOf(GetJobGraph(j).nodes) = {0, 1}

FailedAnalyzers == SelectSeq(Invoked(regIn), LAMBDA r : ~r.ok)
SucceededAnalyzers == SelectSeq(Invoked(regIn), LAMBDA r : r.ok)

KeysOf(nodes) == {IdentityKey(nodes[i]) : i \in 1..Len(nodes)}

\* C23: a call of analyzeWithMultiplePlatforms throws exactly when none of
\* the analyzers it invoked returned a result; the message it throws then
\* holds, for each analyzer that failed, that analyzer's platform and reason;
\* when it does not throw, its result is built from the results of the
\* analyzers that succeeded and from nothing else: their platforms and
\* metadata in the order asked for, their api calls summed, and nodes of
\* exactly their node identities.
C23_FailsIffAllFail ==
    regOut.called =>
        /\ regOut.thrown <=> SucceededAnalyzers = <<>>
        /\ regOut.thrown =>
              \A i \in 1..Len(FailedAnalyzers) :
                  Contains(regOut.message,
                           "Error in " \o FailedAnalyzers[i].platform \o " analyzer: "
                           \o FailedAnalyzers[i].reason)
        /\ ~regOut.thrown =>
              /\ regOut.result.combinedMetadata.platformsUsed =
                    [i \in 1..Len(SucceededAnalyzers) |-> SucceededAnalyzers[i].platform]
              /\ regOut.result.analyzerMetadata =
                    [i \in 1..Len(SucceededAnalyzers) |-> SucceededAnalyzers[i].result.metadata]
              /\ regOut.result.combinedMetadata.totalApiCalls = Len(SucceededAnalyzers)
              /\ KeysOf(regOut.result.nodes) =
                    UNION {KeysOf(SucceededAnalyzers[i].result.nodes) :
                              i \in 1..Len(SucceededAnalyzers)}

\* a call that asked for three platforms: one not registered, one whose
\* analyzer failed, one whose analyzer succeeded; the call returned
C23_Witness ==
    /\ regOut.called
    /\ ~regOut.thrown
    /\ Len(regIn) = 3
    /\ Len(FailedAnalyzers) = 1
    /\ Len(SucceededAnalyzers) = 1
    /\ Len(regOut.result.nodes) = 1

\* C24: when a call of analyzeWithMultiplePlatforms returns although some
\* of its analyzers failed, the metadata of the returned result (the
\* metadata of the analyzers, the combined metadata) holds the reason of
\* each analyzer that failed.
C24_FailuresInMetadata ==
    (regOut.called /\ ~regOut.thrown) =>
        \A i \in 1..Len(FailedAnalyzers) :
            \E k \in 1..Len(regOut.result.analyzerMetadata) :
                \E e \in 1..Len(regOut.result.analyzerMetadata[k].errors) :
                    Contains(regOut.result.analyzerMetadata[k].errors[e],
                             FailedAnalyzers[i].reason)

(***************************************************************************)
(* The client machine: START                                               *)
(***************************************************************************)
\* a config the claim lets START accept: not null, a niche that is not
\* blank, positive limits and at least one source
StartableConfig(config) ==
    /\ config # NullConfig
    /\ \E i \in DOMAIN config.niche : ~IsSpace(config.niche[i])
    /\ config.maxLevels >= 1
    /\ config.maxNodesPerLevel >= 1
    /\ config.sources # <<>>

StartEvent == [type |-> "START"]

\* C25: the machine enters starting only from configured, by the transition
\* of START, and only with a non-null config that has a non-blank niche,
\* maxLevels > 0, maxNodesPerLevel > 0 and a non-empty sources list; START in
\* idle, START with an invalid config and START in any other state leave the
\* state and the context unchanged.
C25_StartOnlyWhenConfigured ==
    /\ [](state # "configured" \/ ~StartableConfig(context.config)
            => Transition(state, context, StartEvent) = To(state, context))
    /\ [][state' = "starting" /\ state # "starting"
            => /\ state = "configured"
               /\ StartableConfig(context.config)
               /\ To(state', context') = Transition(state, context, StartEvent)
               /\ context'.config = context.config]_vars

\* START has been accepted for a config of which a snapshot had been taken
C25_Witness ==
    /\ state = "starting"
    /\ StartableConfig(context.config)
    /\ context.snapshots # <<>>

(***************************************************************************)
(* The client machine: CANCEL                                              *)
(***************************************************************************)
CancelEvent == [type |-> "CANCEL"]

\* the states in which a job is being started, is running or has ended
JobStates == {"starting", "discovering.active", "discovering.paused",
              "complete", "error"}

\* what CANCEL makes of the machine in its current state
Cancelled == Transition(state, context, CancelEvent)

SnapshotEvent == [type |-> "SNAPSHOT"]

\* every event the page, startJobService and the stream may send
ClientEvents ==
    {[type |-> t] : t \in {"START", "PAUSE", "RESUME", "CANCEL", "SNAPSHOT",
                           "DONE", "STREAM_CONNECTED"}}
    \cup {[type |-> "CONFIGURE", config |-> c] : c \in ClientConfigs}
    \cup {[type |-> "RESTORE_SNAPSHOT", snapshot |-> context.snapshots[i]] :
             i \in DOMAIN context.snapshots}
    \cup {[type |-> "done.invoke.startJob", jobId |-> j] : j \in ClientJobIds}
    \cup {[type |-> "error.platform.startJob", message |-> e] : e \in StartFailures}
    \cup {[type |-> "STREAM_DISCONNECTED", reason |-> "Connection error"]}
    \cup {[type |-> "LEVEL_STARTED", level |-> l] : l \in ClientLevels}
    \cup {[type |-> "NODE_FOUND", node |-> n] : n \in ClientNodes}
    \cup {[type |-> "EDGE_FOUND", edge |-> e] : e \in ClientEdges}
    \cup {[type |-> "LEVEL_COMPLETED", level |-> l, nodeCount |-> MaxClientNodes] :
             l \in ClientLevels}
    \cup {[type |-> "PROGRESS", level |-> l, progress |-> p, subAnalysis |-> s] :
             l \in ClientLevels, p \in ClientProgress, s \in ClientSubAnalyses}
    \cup {[type |-> "ERROR", message |-> e] : e \in StreamErrors}

\* the snapshots before are the first snapshots after, unaltered
SnapshotsKept(before, after) ==
    /\ Len(after) >= Len(before)
    /\ \A i \in DOMAIN before : after[i] = before[i]

\* SNAPSHOT in the current state appends one entry that holds the current
\* config, graph, currentLevel and levelCounts, and changes nothing else
SnapshotAppendsEntry ==
    LET after == Transition(state, context, SnapshotEvent)
        n == Len(context.snapshots)
    IN  /\ after.state = state
        /\ Len(after.context.snapshots) = n + 1
        /\ SnapshotsKept(context.snapshots, after.context.snapshots)
        /\ after.context.snapshots[n + 1].config = context.config
        /\ after.context.snapshots[n + 1].graph = context.graph
        /\ after.context.snapshots[n + 1].currentLevel = context.currentLevel
        /\ after.context.snapshots[n + 1].levelCounts = context.levelCounts
        /\ [after.context EXCEPT !.snapshots = context.snapshots] = context

\* RESTORE_SNAPSHOT of the snapshot puts the machine in configured with what
\* the snapshot holds, jobId null and error null
RestorePutsBack(snapshot) ==
    LET after == Transition(state, context,
                            [type |-> "RESTORE_SNAPSHOT", snapshot |-> snapshot])
    IN  /\ after.state = "configured"
        /\ after.context.config = snapshot.config
        /\ after.context.graph = snapshot.graph
        /\ after.context.currentLevel = snapshot.currentLevel
        /\ after.context.levelCounts = snapshot.levelCounts
        /\ after.context.jobId = Null
        /\ after.context.error = Null

\* C27: SNAPSHOT (with a config to hold) appends exactly one entry holding the
\* current config, graph, currentLevel and levelCounts and changes nothing
\* else; no event removes or alters an existing snapshot; RESTORE_SNAPSHOT of
\* a snapshot taken earlier, in idle, configured, complete and error, puts the
\* machine in configured with the snapshot's config, graph, currentLevel and
\* levelCounts, jobId null and error null.
C27_SnapshotsTakenAndRestored ==
    /\ context.config # NullConfig => SnapshotAppendsEntry
    /\ \A event \in ClientEvents :
          SnapshotsKept(context.snapshots,
                        Transition(state, context, event).context.snapshots)
    /\ state \in {"idle", "configured", "complete", "error"}
          => \A i \in DOMAIN context.snapshots : RestorePutsBack(context.snapshots[i])

(***************************************************************************)
(* The per-parent loop of a level                                          *)
(***************************************************************************)
\* the ids of the nodes of the level before the task's level, in the order
\* in which they were produced
ParentIds(task) ==
    LET before == SelectSeq(task.allNodes, LAMBDA n : n.level = task.level - 1)
    IN  [i \in DOMAIN before |-> before[i].id]

\* task t takes a step of the per-parent loop as the claim describes it
ParentLoopStep(t) ==
    LET task  == tasks[t]
        after == tasks'[t]
        ids   == ParentIds(task)
    IN  \* the level starts with the first parent, if there is any
        /\ task.pc = "cb211" /\ after.pc \in {"cb233", "cb300"}
              => /\ after.level = task.level
                 /\ IF ids # <<>> THEN after.pc = "cb233" /\ after.index = 0
                                  ELSE after.pc = "cb300"
        \* the expansion call of the parent at hand is made
        /\ task.pc = "cb233" /\ task.job \notin cancelledJobs
              => /\ task.index < Len(ids)
                 /\ after.pc = "topics"
                 /\ after.index = task.index
                 /\ after.level = task.level
        \* a call starts only at the head of the loop
        /\ after.pc = "topics" => task.pc = "cb233"
        \* after the call has returned the next parent follows, and the level
        \* ends after the last parent only
        /\ task.pc = "topics"
              => /\ after.level = task.level
                 /\ ParentIds(after) = ids
                 /\ IF task.index + 1 < Len(ids)
                    THEN after.pc = "cb233" /\ after.index = task.index + 1
                    ELSE after.pc = "cb300"
                 /\ after.apiCalls = task.apiCalls + 1

\* C28: at every level from 2 to maxLevels that the loop reaches, one
\* expansion call is made for each node of the level before, in the order in
\* which the nodes were produced, a call starting only after the call of the
\* parent before has returned; no parent is skipped because of
\* maxNodesPerLevel or another limit (a cancelled job apart, whose remaining
\* parents get no call).
C28_EveryParentExpanded ==
    [][\A t \in TaskSlots :
          t \in TaskIds /\ tasks'[t] # tasks[t] => ParentLoopStep(t)]_vars

\* the call of the second parent of level 3 is in flight, with
\* maxNodesPerLevel = 1
C28_Witness ==
    \E t \in TaskIds :
        /\ tasks[t].pc = "topics"
        /\ tasks[t].level = 3
        /\ tasks[t].index = 1
        /\ Len(ParentIds(tasks[t])) > tasks[t].config.maxNodesPerLevel
        /\ tasks[t].job \notin cancelledJobs

(***************************************************************************)
(* Cancellation and the per-parent loop                                    *)
(***************************************************************************)
\* task t starts the expansion call of a parent in this step
StartsExpansion(t) ==
    /\ t \in TaskIds
    /\ tasks[t].pc # "topics"
    /\ tasks'[t].pc = "topics"

\* C29: once cancelJob has set the flag of a job, the task of the job starts
\* no further per-parent expansion call: the flag is looked at before the
\* work on each parent begins, so that only a call in flight at the time of
\* the cancel still completes, and the remaining parents of the level are
\* not expanded.
C29_NoExpansionAfterCancel ==
    [][\A t \in TaskSlots :
          t \in TaskIds /\ tasks[t].job \in cancelledJobs
              => /\ ~StartsExpansion(t)
                 /\ tasks[t].pc = "cb233" /\ tasks'[t] # tasks[t]
                       => /\ tasks'[t].pc \in {"cb233", "cb300"}
                          /\ tasks'[t].apiCalls = tasks[t].apiCalls
                          /\ tasks'[t].levelNodes = tasks[t].levelNodes]_vars

\* the job was cancelled while the call of the first of two parents was in
\* flight: that call has completed with a topic, the second parent got no
\* call, and the level is over
C29_Witness ==
    \E t \in TaskIds :
        /\ tasks[t].job \in cancelledJobs
        /\ tasks[t].pc = "cb300"
        /\ Len(ParentIds(tasks[t])) = 2
        /\ tasks[t].levelEdges # <<>>
        /\ \A i \in DOMAIN tasks[t].levelEdges :
              tasks[t].levelEdges[i].source = ParentIds(tasks[t])[1]
        /\ lastCancel.success

(***************************************************************************)
(* Every job ends                                                          *)
(***************************************************************************)
\* job j has ended and has left the active-job map
Ended(j) ==
    /\ j \in DOMAIN jobs
    /\ jobs[j].status \in {"complete", "error", "cancelled"}
    /\ j \notin activeJobs

\* C30: every job that startDiscovery created reaches complete, error or
\* cancelled and its entry is then removed from the active-job map, provided
\* every call of the analyzer returns or fails.
C30_EveryJobEnds ==
    \A j \in JobIds : (j \in DOMAIN jobs) ~> Ended(j)

\* a job has gone through all its three levels and has ended complete
C30_Witness ==
    \E j \in DOMAIN jobs :
        /\ Ended(j)
        /\ jobs[j].status = "complete"
        /\ jobs[j].config.maxLevels = 3
        /\ \E i \in DOMAIN jobGraphs[j].nodes : jobGraphs[j].nodes[i].level = 3

(***************************************************************************)
(* Properties of the merge: data maps and edges                            *)
(***************************************************************************)
\* the shallow union of the data maps of nodes, taken in order, a later
\* value replacing an earlier one of the same key
RECURSIVE UnionOfData(_)
UnionOfData(nodes) ==
    IF nodes = <<>> THEN NoData
    ELSE LET before == UnionOfData(SubSeq(nodes, 1, Len(nodes) - 1))
             last   == nodes[Len(nodes)].data
         IN  IF ~last.has THEN before
             ELSE IF ~before.has THEN last
             ELSE SomeData(SpreadData(before.kv, last.kv))

\* C31: the data of every merged node is the shallow union of the data maps
\* of all its duplicates in input order, a later duplicate's value replacing
\* an earlier one's whichever has the higher confidence, also when the
\* first-seen duplicate has no data map and a later one has.
C31_DataIsUnionOfDuplicates ==
    mergePc = "combined" =>
        \A i \in 1..Len(mergeOut.nodes) :
            mergeOut.nodes[i].data = UnionOfData(Duplicates(mergeOut.nodes[i]))

\* the same, for the nodes whose first-seen duplicate carries a data map
DataUnionWhenFirstHasData ==
    mergePc = "combined" =>
        \A i \in 1..Len(mergeOut.nodes) :
            Duplicates(mergeOut.nodes[i])[1].data.has =>
                mergeOut.nodes[i].data = UnionOfData(Duplicates(mergeOut.nodes[i]))

AllInputEdges == Flatten(SeqMap(LAMBDA r : r.edges, mergeIn))

Triple(edge) == <<edge.source, edge.target, edge.relationship>>

\* the triples of edges, each once, in the order of their first occurrence
RECURSIVE FirstTriples(_)
FirstTriples(edges) ==
    IF edges = <<>> THEN <<>>
    ELSE LET before == FirstTriples(SubSeq(edges, 1, Len(edges) - 1))
             triple == Triple(edges[Len(edges)])
         IN  IF triple \in Range(before) THEN before ELSE Append(before, triple)

\* no two edges of the merged output have the same triple
MergedTriplesDistinct ==
    \A i, k \in 1..Len(mergeOut.edges) :
        i # k => Triple(mergeOut.edges[i]) # Triple(mergeOut.edges[k])

\* one output edge per input triple, with the highest confidence of the input
\* edges of that triple
MergedEdgeKeepsHighest ==
    LET triples == FirstTriples(AllInputEdges)
    IN  /\ Len(mergeOut.edges) = Len(triples)
        /\ \A i \in 1..Len(triples) :
              \A k \in 1..Len(AllInputEdges) :
                  Triple(AllInputEdges[k]) = triples[i] =>
                      AllInputEdges[k].confidence <= mergeOut.edges[i].confidence
        /\ \A i \in 1..Len(triples) :
              \E k \in 1..Len(AllInputEdges) :
                  /\ Triple(AllInputEdges[k]) = triples[i]
                  /\ AllInputEdges[k].confidence = mergeOut.edges[i].confidence

\* input edges of different triples have different keys
KeysSeparateTriples ==
    \A i, k \in 1..Len(AllInputEdges) :
        Triple(AllInputEdges[i]) # Triple(AllInputEdges[k]) =>
            EdgeKey(AllInputEdges[i]) # EdgeKey(AllInputEdges[k])

\* C32: in the merged output, after the ids are remapped, no two edges have
\* the same (source, target, relationship); of the input edges of one triple
\* the one kept has the highest confidence; input edges of different triples
\* are never collapsed into one, node ids containing '-' included.
C32_MergedEdgesDistinct ==
    mergePc = "combined" =>
        /\ MergedTriplesDistinct
        /\ MergedEdgeKeepsHighest
        /\ KeysSeparateTriples

\* the same without the distinctness after the remapping
MergedEdgesKeptPerTriple ==
    mergePc = "combined" => MergedEdgeKeepsHighest /\ KeysSeparateTriples

(***************************************************************************)
(* Properties of the progress the service records                          *)
(***************************************************************************)
\* C33: while a job's status is discovering, its stored currentLevel never
\* decreases from one write to the next, the callbacks of analyzers running
\* in parallel for the job and the callback of an analyzer's failure
\* handler (level 0) included.
C33_CurrentLevelNeverDecreases ==
    [][\A j \in JobIds :
          ( /\ j \in DOMAIN jobs
            /\ jobs[j].status = "discovering"
            /\ jobs'[j].status = "discovering" )
          => jobs'[j].currentLevel >= jobs[j].currentLevel]_vars

\* the statements of analyze that call progressCallback
CallbackPcs ==
    {"cb105", "cb141", "cb164", "cb498", "cb524", "cb192", "cb211", "cb233",
     "cb300", "cb312", "cb344"}

Report(level, sub) == [currentLevel |-> level, subAnalysis |-> sub]

\* the progress that task t, standing at a call of progressCallback, reports
Reported(t) ==
    LET task == tasks[t]
        pc   == task.pc
    IN  CASE pc = "cb105" -> Report(0, NoSubAnalysis)
          [] pc = "cb141" -> Report(0, Sub(1, 0, task.config.niche, "fetching", 10))
          [] pc = "cb164" -> Report(1, Sub(task.subs, 0, <<"p">>, "processing", 0))
          [] pc = "cb498" -> Report(1, Sub(task.subs, task.index,
                                           SubredditName(task.index), "llm_analysis", 0))
          [] pc = "cb524" -> Report(1, Sub(task.subs, task.index,
                                           SubredditName(task.index), "processing", 75))
          [] pc = "cb192" -> Report(1, NoSubAnalysis)
          [] pc = "cb211" -> Report(task.level, Sub(Len(ParentNodes(task)), 0, <<"p">>,
                                                    "fetching", 0))
          [] pc = "cb233" -> Report(task.level,
                                    Sub(Len(ParentNodes(task)), task.index,
                                        ParentNodes(task)[task.index + 1].label,
                                        "llm_analysis", 25))
          [] pc = "cb300" -> Report(task.level, NoSubAnalysis)
          [] pc = "cb312" -> Report(task.config.maxLevels, NoSubAnalysis)
          [] pc = "cb344" -> Report(0, NoSubAnalysis)

\* task t holds the event loop at a call of progressCallback for a job that
\* is not cancelled
Invokes(t) ==
    /\ t \in TaskIds
    /\ running = t
    /\ tasks[t].pc \in CallbackPcs
    /\ tasks[t].job \in DOMAIN jobs
    /\ tasks[t].job \notin cancelledJobs

\* C34: on every progress-callback invocation for a job that is not
\* cancelled the service writes the reported currentLevel and the reported
\* subAnalysis on the job record: after the invocation the record holds the
\* currentLevel and the subAnalysis of that invocation.
C34_RecordHoldsLastReport ==
    [][\A t \in TaskSlots :
          Invokes(t) =>
              /\ jobs'[tasks[t].job].currentLevel = Reported(t).currentLevel
              /\ jobs'[tasks[t].job].subAnalysis = Reported(t).subAnalysis]_vars

\* C34 as corrected: on every progress-callback invocation for a job that is
\* not cancelled the service writes the reported currentLevel, and the
\* reported subAnalysis when the invocation carries one; an invocation
\* without subAnalysis leaves the subAnalysis of the record as it was.
C34_RecordHoldsLevelAndLatestSub ==
    [][\A t \in TaskSlots :
          Invokes(t) =>
              /\ jobs'[tasks[t].job].currentLevel = Reported(t).currentLevel
              /\ jobs'[tasks[t].job].subAnalysis =
                     IF Reported(t).subAnalysis.has
                     THEN Reported(t).subAnalysis
                     ELSE jobs[tasks[t].job].subAnalysis]_vars

\* 'Found n subreddits, analyzing deeper levels...' (level 1, no
\* subAnalysis) has been reported for a job that is not cancelled, and the
\* record still holds the subAnalysis of the last subreddit
C34_Witness ==
    \E t \in TaskIds :
        /\ tasks[t].pc = "cb211"
        /\ tasks[t].job \notin cancelledJobs
        /\ jobs[tasks[t].job].currentLevel = 1
        /\ jobs[tasks[t].job].subAnalysis.has
        /\ jobs[tasks[t].job].subAnalysis.currentStep = "processing"
        /\ jobs[tasks[t].job].subAnalysis.currentItemProgress = 75

(***************************************************************************)
(* Properties of the stored graph                                          *)
(***************************************************************************)
GraphNodes(j, level) == SelectSeq(jobGraphs[j].nodes, LAMBDA n : n.level = level)

\* node is the target of a 'contains' edge of j's graph that comes from a
\* level-0 node of the graph
HangsOnRoot(j, node) ==
    \E i \in 1..Len(jobGraphs[j].edges) :
        /\ jobGraphs[j].edges[i].target = node.id
        /\ jobGraphs[j].edges[i].relationship = "contains"
        /\ \E r \in Range(GraphNodes(j, 0)) : jobGraphs[j].edges[i].source = r.id

\* C35: in the graph of every completed job each level-1 node is the target
\* of a 'contains' edge whose source is the level-0 root node of the graph,
\* also when the level-1 nodes are merged from the results of several
\* analyzers that each bring a root and edges from it.
C35_SubNichesHangOnRoot ==
    \A j \in DOMAIN jobs :
        jobs[j].status = "complete" =>
            \A n \in Range(GraphNodes(j, 1)) : HangsOnRoot(j, n)

\* the node ids of j's graph are pairwise distinct
IdsDistinct(j) ==
    \A i, k \in 1..Len(jobGraphs[j].nodes) :
        i # k => jobGraphs[j].nodes[i].id # jobGraphs[j].nodes[k].id

\* every 'contains' edge into a non-root node of j's graph comes from a node
\* one level above it
LevelsFollowEdges(j) ==
    \A i \in 1..Len(jobGraphs[j].nodes), e \in 1..Len(jobGraphs[j].edges) :
        LET node == jobGraphs[j].nodes[i]
            edge == jobGraphs[j].edges[e]
        IN  ( /\ node.level > 0
              /\ edge.target = node.id
              /\ edge.relationship = "contains" )
            => \A k \in 1..Len(jobGraphs[j].nodes) :
                   jobGraphs[j].nodes[k].id = edge.source =>
                       node.level = jobGraphs[j].nodes[k].level + 1

\* C36: in every reachable state the node ids within one job's graph are
\* pairwise distinct and every non-root node's level is one more than the
\* level of the source node of its incoming 'contains' edge, also after a
\* merge of analyzers that reuse ids and after simulateDiscovery is run for
\* a job whose graph is populated.
C36_IdsDistinctLevelsConsistent ==
    \A j \in DOMAIN jobGraphs : IdsDistinct(j) /\ LevelsFollowEdges(j)

(***************************************************************************)
(* Properties of the progress events                                       *)
(***************************************************************************)
\* what the handler of connection c has written or tried to write
Written(c) == conns[c].log \o conns[c].dropped

\* the progress event carries 100 for a complete job and
\* currentLevel / maxLevels * 100 otherwise, a value in 0..100
ProgressValueRight(c, event) ==
    LET progress  == event.data.progress
        maxLevels == jobs[conns[c].job].config.maxLevels
    IN  /\ progress[2] > 0
        /\ IF event.data.status = "complete"
           THEN progress[1] = 100 * progress[2]
           ELSE progress[1] * maxLevels = event.data.currentLevel * 100 * progress[2]
        /\ 0 <= progress[1]
        /\ progress[1] <= 100 * progress[2]

\* the progress events connection c writes in this step
NewProgressEvents(c) ==
    IF c \in DOMAIN conns /\ c \in DOMAIN conns'
    THEN SelectSeq(SubSeq(conns'[c].log \o conns'[c].dropped,
                          Len(Written(c)) + 1,
                          Len(conns'[c].log) + Len(conns'[c].dropped)),
                   LAMBDA e : e.event = "progress")
    ELSE <<>>

\* C37: every progress event written by a polling connection carries
\* progress 100 when the job's status is complete and
\* currentLevel / maxLevels * 100 otherwise, with the job's current status,
\* currentLevel and subAnalysis, and the progress lies in 0..100 (the stored
\* currentLevel never exceeds the job's maxLevels).
C37_ProgressEventsNormalized ==
    /\ [](\A c \in DOMAIN conns :
            \A i \in 1..Len(Written(c)) :
                Written(c)[i].event = "progress" =>
                    ProgressValueRight(c, Written(c)[i]))
    /\ [](\A j \in DOMAIN jobs :
            jobs[j].currentLevel \in 0..jobs[j].config.maxLevels)
    /\ [][\A c \in 1..MaxConns :
            \A i \in 1..Len(NewProgressEvents(c)) :
                LET data == NewProgressEvents(c)[i].data
                    job  == jobs[conns[c].job]
                IN  /\ conns[c].polling
                    /\ data.status = job.status
                    /\ data.currentLevel = job.currentLevel
                    /\ data.subAnalysis = job.subAnalysis]_vars

\* a poll tick found the job discovering at level 1 of 2 with a
\* sub-analysis under way and wrote progress 50 with that sub-analysis
C37_Witness ==
    \E c \in DOMAIN conns :
        \E i \in 1..Len(conns[c].log) :
            /\ conns[c].log[i].event = "progress"
            /\ conns[c].log[i].data.status = "discovering"
            /\ conns[c].log[i].data.currentLevel = 1
            /\ conns[c].log[i].data.progress = <<100, 2>>
            /\ conns[c].log[i].data.subAnalysis.has
            /\ jobs[conns[c].job].config.maxLevels = 2

(***************************************************************************)
(* Properties of the client machine: the graph of a job                    *)
(***************************************************************************)
\* C38: whenever the client machine reaches complete after a stream replay
\* its graph holds exactly the nodes and edges replayed for that job: the
\* graph is empty whenever the machine enters discovering, also after
\* RESTORE_SNAPSHOT or CONFIGURE followed by START.
C38_GraphEmptyOnEntry ==
    [][(state \notin Discovering /\ state' \in Discovering) =>
          context'.graph = EmptyGraph]_vars

\* without a snapshot restored since the last job, the machine enters
\* discovering with an empty graph
GraphEmptyOnEntryUnlessRestored ==
    [][(state \notin Discovering /\ state' \in Discovering) =>
          \/ context'.graph = EmptyGraph /\ context'.levelCounts = EmptyRecord
          \/ \E i \in 1..Len(context.snapshots) :
                /\ context'.graph = context.snapshots[i].graph
                /\ context'.levelCounts = context.snapshots[i].levelCounts]_vars

(***************************************************************************)
(* Properties of the client machine: cancelling the job on the server      *)
(***************************************************************************)
\* C39: whenever the client machine handles CANCEL while it holds a backend
\* job (jobId non-null, in discovering, complete or error), a cancel request
\* for that job id is sent to the backend.
C39_CancelReachesBackend ==
    [][(SendCancel /\ state \in JobStates /\ context.jobId # Null) =>
          CancelRequests(state, context, [type |-> "CANCEL"])
              = <<context.jobId>>]_vars

\* CANCEL in complete sends the request for the job the machine holds
CancelInCompleteReachesBackend ==
    [][(SendCancel /\ state = "complete" /\ context.jobId # Null) =>
          CancelRequests(state, context, [type |-> "CANCEL"])
              = <<context.jobId>>]_vars

(***************************************************************************)
(* Properties of the job store: the totals                                 *)
(***************************************************************************)
\* C40: in every reachable state of the job store, each job's totalNodes
\* equals the number of nodes in its graph and its totalEdges the number of
\* edges in its graph.
C40_TotalsEqualGraphSizes ==
    /\ DOMAIN jobGraphs = DOMAIN jobs
    /\ \A j \in DOMAIN jobs :
          /\ jobs[j].totalNodes = Len(jobGraphs[j].nodes)
          /\ jobs[j].totalEdges = Len(jobGraphs[j].edges)

\* two jobs in the store, one with nodes and edges stored and its status,
\* level and subAnalysis written since it was created, the other with a
\* smaller graph
C40_Witness ==
    \E j, k \in DOMAIN jobs :
        /\ j # k
        /\ Len(jobGraphs[j].nodes) >= 2
        /\ Len(jobGraphs[j].edges) >= 1
        /\ jobs[j].totalNodes = Len(jobGraphs[j].nodes)
        /\ jobs[j].totalEdges = Len(jobGraphs[j].edges)
        /\ jobs[j].status = "complete"
        /\ jobs[j].subAnalysis # NoSubAnalysis
        /\ Len(jobGraphs[k].nodes) < Len(jobGraphs[j].nodes)

====
